---- MODULE Spec2Model ----
(***************************************************************************)
(* Model of the FingerJoints add-in: the layout resolution of              *)
(* geometry.defineToolBodyDimensions and the pipeline of                   *)
(* geometry.createToolBodies that calls it, the life cycle of the running  *)
(* commands (commands.py, FingerJoints.py) and the dialog with its event   *)
(* handlers (ui.py, FingerJoints.py).                                      *)
(*                                                                         *)
(* Lengths are exact rationals <<n, d>> (d > 0, lowest terms).  Python's   *)
(* "/" is rational division that raises ZeroDivisionError on a zero        *)
(* divisor, Python's int() truncates toward zero.                          *)
(***************************************************************************)
EXTENDS Integers, Naturals, Sequences, FiniteSets, TLC

(***************************************************************************)
(* Bounds of the model                                                     *)
(***************************************************************************)
MaxLen == 2         \* fixed and minimal lengths range over 0..MaxLen
MaxGap == 1         \* the gap ranges over 0..MaxGap
MaxCount == 3       \* fixedNumFingers ranges over 1..MaxCount
MaxSize == 6        \* the overlap's z extent ranges over -1..MaxSize

\* Values of the infeasibility scenario (size 50, minimal finger size 60).
ScenarioSizes == {50}
ScenarioMinFingerSizes == {60}

\* Values of the scenario with a fixed count (size 100, 5 fingers).
ScenarioCountSizes == {100}
ScenarioCounts == {5}

\* The default of the four lengths of the options.
DefaultLength == 2

(***************************************************************************)
(* options.py: the enumerations                                            *)
(***************************************************************************)
FINGERS_OUTSIDE == "fingers outside"
NOTCHES_OUTSIDE == "notches outside"
SAME_NUMBER_START_FINGER == "same number of fingers and notches (start with finger)"
SAME_NUMBER_START_NOTCH == "same number of fingers and notches (start with notch)"
PlacementType ==
    {FINGERS_OUTSIDE, NOTCHES_OUTSIDE, SAME_NUMBER_START_FINGER, SAME_NUMBER_START_NOTCH}

FIXED_NOTCH_SIZE == "fixed notch size"
FIXED_FINGER_SIZE == "fixed finger size"
EQUAL_NOTCH_AND_FINGER_SIZE == "equal notch and finger size"
DynamicSizeType == {FIXED_NOTCH_SIZE, FIXED_FINGER_SIZE, EQUAL_NOTCH_AND_FINGER_SIZE}

(***************************************************************************)
(* Exact arithmetic                                                        *)
(***************************************************************************)
Abs(n) == IF n < 0 THEN -n ELSE n

RECURSIVE GCD(_, _)
GCD(a, b) == IF b = 0 THEN a ELSE GCD(b, a % b)

\* The rational n/d (d # 0) in lowest terms with a positive denominator.
Rat(n, d) ==
    LET s == IF d < 0 THEN -1 ELSE 1
        g == GCD(Abs(n), Abs(d))
    IN  <<(s * n) \div g, (s * d) \div g>>

RInt(k) == <<k, 1>>
RAdd(a, b) == Rat(a[1] * b[2] + b[1] * a[2], a[2] * b[2])
RSub(a, b) == Rat(a[1] * b[2] - b[1] * a[2], a[2] * b[2])
RMul(a, b) == Rat(a[1] * b[1], a[2] * b[2])
RDiv(a, b) == Rat(a[1] * b[2], a[2] * b[1])       \* b # 0
RLt(a, b) == a[1] * b[2] < b[1] * a[2]
RLe(a, b) == a[1] * b[2] <= b[1] * a[2]
RIsZero(a) == a[1] = 0

\* Python: int(x), truncation toward zero.
PyInt(a) == IF a[1] >= 0 THEN a[1] \div a[2] ELSE -((-a[1]) \div a[2])

\* Rounding toward minus infinity.
Floor(a) == a[1] \div a[2]

\* geometry.py line 259: epsilon = 0.00001
epsilonDen == 100000
epsilon == <<1, epsilonDen>>

(***************************************************************************)
(* geometry.defineToolBodyDimensions, lines 154-283.                       *)
(*                                                                         *)
(* The local variables of one call are kept in a record:                   *)
(*   raised     a division raised ZeroDivisionError                        *)
(*   returned   the call left through an early "return None, None"         *)
(*   hasCounts  numFingers and numNotches were assigned                    *)
(*   hasSizes   fingerSize and notchSize were assigned                     *)
(***************************************************************************)
Unbound == <<0, 0>>

Locals(raised, returned, hasCounts, hasSizes, nF, nN, fS, nS) ==
    [raised |-> raised, returned |-> returned,
     hasCounts |-> hasCounts, hasSizes |-> hasSizes,
     numFingers |-> nF, numNotches |-> nN, fingerSize |-> fS, notchSize |-> nS]

ZeroDivisionError(hasCounts, nF, nN, fS, nS) ==
    Locals(TRUE, FALSE, hasCounts, FALSE, nF, nN, fS, nS)
ReturnNone(nF, nN, fS, nS) ==
    Locals(FALSE, TRUE, TRUE, FALSE, nF, nN, fS, nS)
Assigned(nF, nN, fS, nS) ==
    Locals(FALSE, FALSE, TRUE, TRUE, nF, nN, fS, nS)

\* Lines 157-163: the lengths read from the options.
minFingerSize_FromMinNotch(inputs) == RInt(inputs.minNotchSize)
minFingerSize(inputs) == RInt(inputs.minFingerSize)
minNotchSize_FromMinFinger(inputs) == RInt(inputs.minFingerSize)
minNotchSize(inputs) == RInt(inputs.minNotchSize)
fixedNotchSize(inputs) == RInt(inputs.fixedNotchSize)
fixedFingerSize(inputs) == RInt(inputs.fixedFingerSize)
gapSize(inputs) == RInt(inputs.gap)

\* Lines 167-172: the number of notches for a given number of fingers.
numNotchesFor_Swapped(placementType, numFingers) ==
    IF placementType = FINGERS_OUTSIDE THEN numFingers + 1
    ELSE IF placementType = NOTCHES_OUTSIDE THEN numFingers - 1
    ELSE numFingers
numNotchesFor(placementType, numFingers) ==
    IF placementType = FINGERS_OUTSIDE THEN numFingers - 1
    ELSE IF placementType = NOTCHES_OUTSIDE THEN numFingers + 1
    ELSE numFingers

\* Lines 196-206: both counts start at half of the maximal number; the
\* placement and the parity of the maximal number adjust one of them.
AdjustedCounts_Unadjusted(placementType, maxNumFingersAndNotches) ==
    LET half == PyInt(RDiv(RInt(maxNumFingersAndNotches), RInt(2)))
    IN  [numFingers |-> half, numNotches |-> half]
AdjustedCounts_ParityInverted(placementType, maxNumFingersAndNotches) ==
    LET half == PyInt(RDiv(RInt(maxNumFingersAndNotches), RInt(2)))
        odd == maxNumFingersAndNotches % 2 = 0
    IN  [numFingers |->
             IF placementType = FINGERS_OUTSIDE /\ odd THEN half + 1
             ELSE IF placementType = NOTCHES_OUTSIDE /\ ~odd THEN half - 1
             ELSE half,
         numNotches |->
             IF placementType = FINGERS_OUTSIDE /\ ~odd THEN half - 1
             ELSE IF placementType = NOTCHES_OUTSIDE /\ odd THEN half + 1
             ELSE half]
AdjustedCounts(placementType, maxNumFingersAndNotches) ==
    LET half == PyInt(RDiv(RInt(maxNumFingersAndNotches), RInt(2)))
        odd == maxNumFingersAndNotches % 2 = 1
    IN  [numFingers |->
             IF placementType = FINGERS_OUTSIDE /\ odd THEN half + 1
             ELSE IF placementType = NOTCHES_OUTSIDE /\ ~odd THEN half - 1
             ELSE half,
         numNotches |->
             IF placementType = FINGERS_OUTSIDE /\ ~odd THEN half - 1
             ELSE IF placementType = NOTCHES_OUTSIDE /\ odd THEN half + 1
             ELSE half]

\* Lines 221-225.
extraNotch_Swapped(placementType) ==
    IF placementType = FINGERS_OUTSIDE THEN 1
    ELSE IF placementType = NOTCHES_OUTSIDE THEN -1
    ELSE 0
extraNotch(placementType) ==
    IF placementType = FINGERS_OUTSIDE THEN -1
    ELSE IF placementType = NOTCHES_OUTSIDE THEN 1
    ELSE 0

\* Lines 242-246.
extraFinger_Swapped(placementType) ==
    IF placementType = FINGERS_OUTSIDE THEN -1
    ELSE IF placementType = NOTCHES_OUTSIDE THEN 1
    ELSE 0
extraFinger(placementType) ==
    IF placementType = FINGERS_OUTSIDE THEN 1
    ELSE IF placementType = NOTCHES_OUTSIDE THEN -1
    ELSE 0

\* Lines 164-185: the number of fingers is given.
FixedCountDims(size, inputs) ==
    LET numFingers == inputs.fixedNumFingers
        numNotches == numNotchesFor(inputs.placementType, numFingers)
        numGaps == numFingers + numNotches - 1
        totalGapSize == RMul(RInt(numGaps), gapSize(inputs))
    IN  IF inputs.dynamicSizeType = EQUAL_NOTCH_AND_FINGER_SIZE THEN
            IF numFingers + numNotches = 0
            THEN ZeroDivisionError(TRUE, numFingers, numNotches, Unbound, Unbound)
            ELSE LET fingerSize ==
                         RDiv(RSub(size, totalGapSize), RInt(numFingers + numNotches))
                 IN  Assigned(numFingers, numNotches, fingerSize, fingerSize)
        ELSE IF inputs.dynamicSizeType = FIXED_NOTCH_SIZE THEN
            LET notchSize == fixedNotchSize(inputs)
            IN  IF numFingers = 0
                THEN ZeroDivisionError(TRUE, numFingers, numNotches, Unbound, notchSize)
                ELSE Assigned(numFingers, numNotches,
                         RDiv(RSub(RSub(size, totalGapSize),
                                   RMul(RInt(numNotches), notchSize)),
                              RInt(numFingers)),
                         notchSize)
        ELSE
            LET fingerSize == fixedFingerSize(inputs)
            IN  IF numNotches = 0
                THEN ZeroDivisionError(TRUE, numFingers, numNotches, fingerSize, Unbound)
                ELSE Assigned(numFingers, numNotches, fingerSize,
                         RDiv(RSub(RSub(size, totalGapSize),
                                   RMul(RInt(numFingers), fingerSize)),
                              RInt(numNotches)))

DynamicEqualDims_GapNotInDivisor(size, inputs) ==
    LET divisor == minFingerSize(inputs)
    IN  IF RIsZero(divisor) THEN ZeroDivisionError(FALSE, 0, 0, Unbound, Unbound)
        ELSE
        LET maxNumFingersAndNotches == PyInt(RDiv(RAdd(size, gapSize(inputs)), divisor))
            counts == AdjustedCounts(inputs.placementType, maxNumFingersAndNotches)
            numFingers == counts.numFingers
            numNotches == counts.numNotches
        IN  IF numFingers + numNotches = 0
            THEN ReturnNone(numFingers, numNotches, Unbound, Unbound)
            ELSE
            LET numGaps == numFingers + numNotches - 1
                totalGapSize == RMul(RInt(numGaps), gapSize(inputs))
                fingerSize ==
                    RDiv(RSub(size, totalGapSize), RInt(numFingers + numNotches))
            IN  Assigned(numFingers, numNotches, fingerSize, fingerSize)

\* Lines 189-214: dynamic count, fingers and notches of the same size.
DynamicEqualDims(size, inputs) ==
    LET divisor == RAdd(minFingerSize(inputs), gapSize(inputs))
    IN  IF RIsZero(divisor) THEN ZeroDivisionError(FALSE, 0, 0, Unbound, Unbound)
        ELSE
        LET maxNumFingersAndNotches == PyInt(RDiv(RAdd(size, gapSize(inputs)), divisor))
            counts == AdjustedCounts(inputs.placementType, maxNumFingersAndNotches)
            numFingers == counts.numFingers
            numNotches == counts.numNotches
        IN  IF numFingers + numNotches = 0
            THEN ReturnNone(numFingers, numNotches, Unbound, Unbound)
            ELSE
            LET numGaps == numFingers + numNotches - 1
                totalGapSize == RMul(RInt(numGaps), gapSize(inputs))
                fingerSize ==
                    RDiv(RSub(size, totalGapSize), RInt(numFingers + numNotches))
            IN  Assigned(numFingers, numNotches, fingerSize, fingerSize)

DynamicFixedNotchDims_MinNotInDivisor(size, inputs) ==
    LET notchSize == fixedNotchSize(inputs)
        extra == extraNotch(inputs.placementType)
        divisor == RAdd(notchSize, RMul(RInt(2), gapSize(inputs)))
    IN  IF RIsZero(divisor) THEN ZeroDivisionError(FALSE, 0, 0, Unbound, notchSize)
        ELSE
        LET numFingers ==
                PyInt(RDiv(RAdd(RSub(size, RMul(RInt(extra),
                                                RAdd(notchSize, gapSize(inputs)))),
                                gapSize(inputs)),
                           divisor))
            numNotches == numFingers + extra
        IN  IF numFingers = 0 THEN ReturnNone(numFingers, numNotches, Unbound, notchSize)
            ELSE
            LET numGaps == numFingers + numNotches - 1
                totalGapSize == RMul(RInt(numGaps), gapSize(inputs))
                fingerSize ==
                    RDiv(RSub(RSub(size, totalGapSize),
                              RMul(RInt(numNotches), notchSize)),
                         RInt(numFingers))
            IN  Assigned(numFingers, numNotches, fingerSize, notchSize)

\* Lines 217-235: dynamic count, notches of a fixed size.
DynamicFixedNotchDims(size, inputs) ==
    LET notchSize == fixedNotchSize(inputs)
        extra == extraNotch(inputs.placementType)
        divisor == RAdd(RAdd(notchSize, minFingerSize(inputs)),
                        RMul(RInt(2), gapSize(inputs)))
    IN  IF RIsZero(divisor) THEN ZeroDivisionError(FALSE, 0, 0, Unbound, notchSize)
        ELSE
        LET numFingers ==
                PyInt(RDiv(RAdd(RSub(size, RMul(RInt(extra),
                                                RAdd(notchSize, gapSize(inputs)))),
                                gapSize(inputs)),
                           divisor))
            numNotches == numFingers + extra
        IN  IF numFingers = 0 THEN ReturnNone(numFingers, numNotches, Unbound, notchSize)
            ELSE
            LET numGaps == numFingers + numNotches - 1
                totalGapSize == RMul(RInt(numGaps), gapSize(inputs))
                fingerSize ==
                    RDiv(RSub(RSub(size, totalGapSize),
                              RMul(RInt(numNotches), notchSize)),
                         RInt(numFingers))
            IN  Assigned(numFingers, numNotches, fingerSize, notchSize)

DynamicFixedFingerDims_NotchAtMinimum(size, inputs) ==
    LET fingerSize == fixedFingerSize(inputs)
        extra == extraFinger(inputs.placementType)
        divisor == RAdd(RAdd(fingerSize, minNotchSize(inputs)),
                        RMul(RInt(2), gapSize(inputs)))
    IN  IF RIsZero(divisor) THEN ZeroDivisionError(FALSE, 0, 0, fingerSize, Unbound)
        ELSE
        LET numNotches ==
                PyInt(RDiv(RAdd(RSub(size, RMul(RInt(extra),
                                                RAdd(fingerSize, gapSize(inputs)))),
                                gapSize(inputs)),
                           divisor))
            numFingers == numNotches + extra
        IN  IF numNotches = 0 THEN ReturnNone(numFingers, numNotches, fingerSize, Unbound)
            ELSE Assigned(numFingers, numNotches, fingerSize, minNotchSize(inputs))

\* Lines 238-256: dynamic count, fingers of a fixed size.
DynamicFixedFingerDims(size, inputs) ==
    LET fingerSize == fixedFingerSize(inputs)
        extra == extraFinger(inputs.placementType)
        divisor == RAdd(RAdd(fingerSize, minNotchSize(inputs)),
                        RMul(RInt(2), gapSize(inputs)))
    IN  IF RIsZero(divisor) THEN ZeroDivisionError(FALSE, 0, 0, fingerSize, Unbound)
        ELSE
        LET numNotches ==
                PyInt(RDiv(RAdd(RSub(size, RMul(RInt(extra),
                                                RAdd(fingerSize, gapSize(inputs)))),
                                gapSize(inputs)),
                           divisor))
            numFingers == numNotches + extra
        IN  IF numNotches = 0 THEN ReturnNone(numFingers, numNotches, fingerSize, Unbound)
            ELSE
            LET numGaps == numFingers + numNotches - 1
                totalGapSize == RMul(RInt(numGaps), gapSize(inputs))
                notchSize ==
                    RDiv(RSub(RSub(size, totalGapSize),
                              RMul(RInt(numFingers), fingerSize)),
                         RInt(numNotches))
            IN  Assigned(numFingers, numNotches, fingerSize, notchSize)

\* Lines 164-256: the six branches.
ResolveDims(size, inputs) ==
    IF inputs.isNumberOfFingersFixed THEN FixedCountDims(size, inputs)
    ELSE IF inputs.dynamicSizeType = EQUAL_NOTCH_AND_FINGER_SIZE
         THEN DynamicEqualDims(size, inputs)
    ELSE IF inputs.dynamicSizeType = FIXED_NOTCH_SIZE
         THEN DynamicFixedNotchDims(size, inputs)
    ELSE DynamicFixedFingerDims(size, inputs)

\* Lines 258-266: the sanity check; TRUE when the dimensions are rejected.
OccupiedLength(numFingers, numNotches, fingerSize, notchSize, gap) ==
    RAdd(RAdd(RMul(fingerSize, RInt(numFingers)), RMul(notchSize, RInt(numNotches))),
         RMul(RInt(numFingers + numNotches - 1), gap))

FailsSanityCheck_NoSingleUnitCheck(d, size, gap) ==
    \/ RLe(d.fingerSize, epsilon)
    \/ RLe(d.notchSize, epsilon)
    \/ d.numFingers < 0
    \/ d.numNotches < 0
    \/ RLt(size, RSub(OccupiedLength(d.numFingers, d.numNotches,
                                     d.fingerSize, d.notchSize, gap),
                      epsilon))
FailsSanityCheck_NoLengthCheck(d, size, gap) ==
    \/ d.numFingers < 0
    \/ d.numNotches < 0
    \/ d.numFingers + d.numNotches = 1
    \/ RLt(size, RSub(OccupiedLength(d.numFingers, d.numNotches,
                                     d.fingerSize, d.notchSize, gap),
                      epsilon))
FailsSanityCheck(d, size, gap) ==
    \/ RLe(d.fingerSize, epsilon)
    \/ RLe(d.notchSize, epsilon)
    \/ d.numFingers < 0
    \/ d.numNotches < 0
    \/ d.numFingers + d.numNotches = 1
    \/ RLt(size, RSub(OccupiedLength(d.numFingers, d.numNotches,
                                     d.fingerSize, d.notchSize, gap),
                      epsilon))

\* Lines 268-274: the position of the first finger and of the first notch.
FingerStart_AlwaysZero(placementType, notchSize, gap) == RInt(0)
FingerStart(placementType, notchSize, gap) ==
    IF placementType \in {FINGERS_OUTSIDE, SAME_NUMBER_START_FINGER}
    THEN RInt(0) ELSE RAdd(notchSize, gap)

NotchStart_AlwaysZero(placementType, fingerSize, gap) == RInt(0)
NotchStart(placementType, fingerSize, gap) ==
    IF placementType \in {FINGERS_OUTSIDE, SAME_NUMBER_START_FINGER}
    THEN RAdd(fingerSize, gap) ELSE RInt(0)

\* Lines 276-282: one list comprehension, count slices of the given
\* thickness, slice i starting at start + i*spacing - gap (i from 0).
SliceList_FromOne(start, spacing, gap, thickness, count) ==
    [k \in 1..count |->
        <<RSub(RAdd(start, RMul(RInt(k), spacing)), gap), thickness>>]
SliceList(start, spacing, gap, thickness, count) ==
    [k \in 1..count |->
        <<RSub(RAdd(start, RMul(RInt(k - 1), spacing)), gap), thickness>>]

Spacing_OneGap(fingerSize, notchSize, gap) ==
    RAdd(RAdd(fingerSize, notchSize), gap)
Spacing(fingerSize, notchSize, gap) ==
    RAdd(RAdd(fingerSize, notchSize), RMul(RInt(2), gap))

FingerToolDimensions(d, placementType, gap) ==
    SliceList(NotchStart(placementType, d.fingerSize, gap),
              Spacing(d.fingerSize, d.notchSize, gap), gap,
              RAdd(d.notchSize, RMul(RInt(2), gap)), d.numNotches)

NotchToolDimensions(d, placementType, gap) ==
    SliceList(FingerStart(placementType, d.notchSize, gap),
              Spacing(d.fingerSize, d.notchSize, gap), gap,
              RAdd(d.fingerSize, RMul(RInt(2), gap)), d.numFingers)

\* The outcome of a call: the exception, (None, None), or the two lists.
defineToolBodyDimensions(size, inputs) ==
    LET d == ResolveDims(size, inputs)
        gap == gapSize(inputs)
    IN  IF d.raised THEN [kind |-> "ZeroDivisionError", locals |-> d,
                          fingerToolDimensions |-> <<>>, notchToolDimensions |-> <<>>]
        ELSE IF d.returned \/ FailsSanityCheck(d, size, gap)
        THEN [kind |-> "None", locals |-> d,
              fingerToolDimensions |-> <<>>, notchToolDimensions |-> <<>>]
        ELSE [kind |-> "Dimensions", locals |-> d,
              fingerToolDimensions |-> FingerToolDimensions(d, inputs.placementType, gap),
              notchToolDimensions |-> NotchToolDimensions(d, inputs.placementType, gap)]

(***************************************************************************)
(* geometry.createToolBodies, lines 133-151, one call.                     *)
(***************************************************************************)
VARIABLES
    inputs,       \* the options object handed to createToolBodies
    pc,           \* the position of the call
    height,       \* bb.maxPoint.z - bb.minPoint.z of the overlap, local frame
    dimensions,   \* what defineToolBodyDimensions gave
    toolBodies,   \* the slice lists handed to createToolBody, in call order
    result,       \* what createToolBodies returned (or raised)
    calls,        \* the functions createToolBodies has called, in call order
    tool,         \* the locals of one call of createToolBody
    frame,        \* the locals of one call of CoordinateSystem.__init__
    running_commands,  \* commands.running_commands
    commands,     \* the command objects constructed so far, in order
    ui,           \* the inputs of the dialog (ui.FingerJointUI)
    options,      \* the options object of the dialog's command (self.options)
    events        \* the events of the dialog that the application has pending

vars == <<inputs, pc, height, dimensions, toolBodies, result, calls, tool, frame,
          running_commands, commands, ui, options, events>>

\* The variables of the add-in's commands and of its dialog, and their values
\* while no command runs.
addInVars == <<running_commands, commands, ui, options, events>>
NoDialog == [line |-> "none"]
NoAddIn ==
    /\ running_commands = {}
    /\ commands = <<>>
    /\ ui = NoDialog
    /\ options = NoDialog
    /\ events = NoDialog

Lengths == 0..MaxLen
Gaps == 0..MaxGap
Counts == 1..MaxCount
Heights == (-1..MaxSize) \cup ScenarioSizes

\* options.FingerJointOptions (options.py lines 57-67) as read by lines 155-163.
Options ==
    [placementType : PlacementType,
     dynamicSizeType : DynamicSizeType,
     isNumberOfFingersFixed : BOOLEAN,
     fixedNumFingers : Counts,
     fixedNotchSize : Lengths,
     fixedFingerSize : Lengths,
     minNotchSize : Lengths,
     minFingerSize : Lengths \cup ScenarioMinFingerSizes,
     gap : Gaps]

NotCalled ==
    [kind |-> "NotCalled",
     locals |-> Locals(FALSE, FALSE, FALSE, FALSE, 0, 0, Unbound, Unbound),
     fingerToolDimensions |-> <<>>, notchToolDimensions |-> <<>>]

\* No call of createToolBody or of CoordinateSystem.__init__ is being followed.
NoToolCall == [line |-> "none"]
NoFrameCall == [line |-> "none"]

Init ==
    /\ NoAddIn
    /\ inputs \in Options
    /\ pc = "start"
    /\ height = 0
    /\ dimensions = NotCalled
    /\ toolBodies = <<>>
    /\ result = "running"
    /\ calls = <<>>
    /\ tool = NoToolCall
    /\ frame = NoFrameCall

\* Line 134: the overlap of the two bodies is built.
CreateOverlap ==
    /\ pc = "start"
    /\ pc' = "overlap"
    /\ calls' = Append(calls, "createBodyFromOverlap")
    /\ UNCHANGED <<inputs, height, dimensions, toolBodies, result, tool, frame>>
    /\ UNCHANGED addInVars

\* Line 135: the coordinate system is built from the direction and the overlap.
BuildCoordinateSystem ==
    /\ pc = "overlap"
    /\ pc' = "frame"
    /\ calls' = Append(calls, "CoordinateSystem")
    /\ UNCHANGED <<inputs, height, dimensions, toolBodies, result, tool, frame>>
    /\ UNCHANGED addInVars

\* Line 136: the overlap is moved into the local frame.
TransformToLocalCoordinates ==
    /\ pc = "frame"
    /\ pc' = "local"
    /\ calls' = Append(calls, "transformToLocalCoordinates")
    /\ UNCHANGED <<inputs, height, dimensions, toolBodies, result, tool, frame>>
    /\ UNCHANGED addInVars

\* Lines 139-142: the extent of the overlap along z is whatever the kernel
\* measures; without an extent no cut is needed.
MeasureHeight_Strict ==
    /\ pc = "local"
    /\ \E h \in Heights :
        /\ height' = h
        /\ IF h < 0
           THEN pc' = "done" /\ result' = "True"
           ELSE pc' = "resolve" /\ result' = result
    /\ calls' = Append(calls, "boundingBox")
    /\ UNCHANGED <<inputs, dimensions, toolBodies, tool, frame>>
    /\ UNCHANGED addInVars
MeasureHeight_NoTest ==
    /\ pc = "local"
    /\ \E h \in Heights : height' = h
    /\ pc' = "resolve"
    /\ calls' = Append(calls, "boundingBox")
    /\ UNCHANGED <<inputs, dimensions, toolBodies, result, tool, frame>>
    /\ UNCHANGED addInVars
MeasureHeight ==
    /\ pc = "local"
    /\ \E h \in Heights :
        /\ height' = h
        /\ IF h <= 0
           THEN pc' = "done" /\ result' = "True"
           ELSE pc' = "resolve" /\ result' = result
    /\ calls' = Append(calls, "boundingBox")
    /\ UNCHANGED <<inputs, dimensions, toolBodies, tool, frame>>
    /\ UNCHANGED addInVars

\* Lines 143-145.
ResolveDimensions ==
    /\ pc = "resolve"
    /\ dimensions' = defineToolBodyDimensions(RInt(height), inputs)
    /\ IF dimensions'.kind = "ZeroDivisionError"
       THEN pc' = "done" /\ result' = "ZeroDivisionError"
       ELSE IF dimensions'.kind = "None"
       THEN pc' = "done" /\ result' = "False"
       ELSE pc' = "fingerTool" /\ result' = result
    /\ calls' = Append(calls, "defineToolBodyDimensions")
    /\ UNCHANGED <<inputs, height, toolBodies, tool, frame>>
    /\ UNCHANGED addInVars

\* Lines 147-148.
CreateFingerToolBody ==
    /\ pc = "fingerTool"
    /\ toolBodies' = Append(toolBodies, dimensions.fingerToolDimensions)
    /\ pc' = "notchTool"
    /\ calls' = calls \o <<"createToolBody", "transformToGlobalCoordinates">>
    /\ UNCHANGED <<inputs, height, dimensions, result, tool, frame>>
    /\ UNCHANGED addInVars

\* Lines 149-151.
CreateNotchToolBody ==
    /\ pc = "notchTool"
    /\ toolBodies' = Append(toolBodies, dimensions.notchToolDimensions)
    /\ pc' = "done"
    /\ result' = "ToolBodies"
    /\ calls' = calls \o <<"createToolBody", "transformToGlobalCoordinates">>
    /\ UNCHANGED <<inputs, height, dimensions, tool, frame>>
    /\ UNCHANGED addInVars

Next ==
    \/ CreateOverlap
    \/ BuildCoordinateSystem
    \/ TransformToLocalCoordinates
    \/ MeasureHeight
    \/ ResolveDimensions
    \/ CreateFingerToolBody
    \/ CreateNotchToolBody

Spec == Init /\ [][Next]_vars

\* The calls of lines 134-139, of line 143 and of lines 147-148 (149-150),
\* in this order.
CallsBeforeTest ==
    <<"createBodyFromOverlap", "CoordinateSystem",
      "transformToLocalCoordinates", "boundingBox">>
CallsOfResolution == Append(CallsBeforeTest, "defineToolBodyDimensions")
CallsOfOneTool == <<"createToolBody", "transformToGlobalCoordinates">>

(***************************************************************************)
(* geometry.defineToolBodyDimensions, lines 154-283, as a function: the    *)
(* call of line 143 for every size and every options object drawn.         *)
(***************************************************************************)
\* The options of the scenario with a fixed count of 5 fingers; the lengths
\* keep the defaults of options.py lines 60-63.
ScenarioOptions ==
    [placementType : PlacementType,
     dynamicSizeType : DynamicSizeType,
     isNumberOfFingersFixed : {TRUE},
     fixedNumFingers : ScenarioCounts,
     fixedNotchSize : {DefaultLength},
     fixedFingerSize : {DefaultLength},
     minNotchSize : {DefaultLength},
     minFingerSize : {DefaultLength},
     gap : Gaps]

\* Lines 134-142 have run and left a positive height (line 143 is next).
InitResolve ==
    /\ NoAddIn
    /\ \/ inputs \in Options /\ height \in 1..MaxSize
       \/ inputs \in ScenarioOptions /\ height \in ScenarioCountSizes
    /\ pc = "resolve"
    /\ dimensions = NotCalled
    /\ toolBodies = <<>>
    /\ result = "running"
    /\ calls = CallsBeforeTest
    /\ tool = NoToolCall
    /\ frame = NoFrameCall

NextResolve == ResolveDimensions

ResolveSpec == InitResolve /\ [][NextResolve]_vars

\* Lines 143-151: the resolution of the layout and the two calls of
\* createToolBody that receive its slice lists.
NextLayout ==
    \/ ResolveDimensions
    \/ CreateFingerToolBody
    \/ CreateNotchToolBody

LayoutSpec == InitResolve /\ [][NextLayout]_vars

(***************************************************************************)
(* geometry.createToolBody, lines 73-123, one call (debug = False).        *)
(***************************************************************************)
MaxExtent == 2      \* the x and y extents of the overlap range over 1..MaxExtent

\* Line 80.
slack == 1

\* The policies whose slice lists are stacked: a fixed count, the lengths of
\* the options at 1.
ToolOptions ==
    [placementType : PlacementType,
     dynamicSizeType : DynamicSizeType,
     isNumberOfFingersFixed : {TRUE},
     fixedNumFingers : Counts,
     fixedNotchSize : {1},
     fixedFingerSize : {1},
     minNotchSize : {1},
     minFingerSize : {1},
     gap : Gaps]

\* The bounding boxes of the overlap: any position in x, y and z; the z
\* extent is the height measured at line 140.
BoundingBoxes(h) ==
    {[minx |-> x, maxx |-> x + l, miny |-> y, maxy |-> y + w,
      minz |-> z, maxz |-> z + h] :
        x \in -1..0, l \in 1..MaxExtent, y \in -1..0, w \in 1..MaxExtent,
        z \in 0..1}

RMax(a, b) == IF RLt(a, b) THEN b ELSE a

\* Lines 66-70: the oriented box, its length along x and its width along y.
createBox(x, y, z, length, width, boxHeight) ==
    [centerPoint |-> <<x, y, z>>, length |-> length, width |-> width,
     height |-> boxHeight]

\* Line 85: the box of one slice (sliceCenterStart, sliceThickness).
BoxOfSlice_AtSliceStart(t, slice) ==
    createBox(t.cx, t.cy, RAdd(RInt(t.bb.minz), slice[1]),
              t.length, t.width, slice[2])
BoxOfSlice(t, slice) ==
    createBox(t.cx, t.cy,
              RAdd(RAdd(RInt(t.bb.minz), slice[1]), RDiv(slice[2], RInt(2))),
              t.length, t.width, slice[2])

\* Line 73: the call createToolBody(body, slices, inputs) before its first
\* statement.
ToolCall(bb, slices, gapToPart) ==
    [line |-> "start", bb |-> bb, slices |-> slices, gapToPart |-> gapToPart,
     cx |-> Unbound, cy |-> Unbound, length |-> Unbound, width |-> Unbound,
     i |-> 0, boxes |-> <<>>, ops |-> <<>>,
     scale |-> <<Unbound, Unbound, Unbound>>]

\* createToolBodies is at line 147 or at line 149 with a concrete layout and
\* calls createToolBody.
InitTool ==
    /\ NoAddIn
    /\ inputs \in ToolOptions
    /\ height \in 1..MaxSize
    /\ dimensions = defineToolBodyDimensions(RInt(height), inputs)
    /\ dimensions.kind = "Dimensions"
    /\ result = "running"
    /\ frame = NoFrameCall
    /\ \E bb \in BoundingBoxes(height), g \in Gaps :
        \/ /\ pc = "fingerTool"
           /\ toolBodies = <<>>
           /\ calls = CallsOfResolution
           /\ tool = ToolCall(bb, dimensions.fingerToolDimensions, g)
        \/ /\ pc = "notchTool"
           /\ toolBodies = <<dimensions.fingerToolDimensions>>
           /\ calls = CallsOfResolution \o CallsOfOneTool
           /\ tool = ToolCall(bb, dimensions.notchToolDimensions, g)

\* Lines 74-81: the centre of the bounding box and the size of the slabs.
ReadBoundingBox ==
    /\ tool.line = "start"
    /\ tool' = [tool EXCEPT
          !.cx = RDiv(RInt(tool.bb.minx + tool.bb.maxx), RInt(2)),
          !.cy = RDiv(RInt(tool.bb.miny + tool.bb.maxy), RInt(2)),
          !.length = RInt(tool.bb.maxx - tool.bb.minx + slack),
          !.width = RInt(tool.bb.maxy - tool.bb.miny + slack),
          !.line = "loop"]
    /\ UNCHANGED <<inputs, pc, height, dimensions, toolBodies, result, calls, frame>>
    /\ UNCHANGED addInVars

\* Lines 84-90, one iteration: the box of the next slice is created; the
\* first one becomes the target body, every other one is united with it.
StackSlice ==
    /\ tool.line = "loop"
    /\ tool.i < Len(tool.slices)
    /\ tool' = [tool EXCEPT
          !.i = tool.i + 1,
          !.boxes = Append(tool.boxes, BoxOfSlice(tool, tool.slices[tool.i + 1])),
          !.ops = IF tool.i = 0
                  THEN Append(tool.ops, "createBox")
                  ELSE tool.ops \o <<"createBox", "union">>]
    /\ UNCHANGED <<inputs, pc, height, dimensions, toolBodies, result, calls, frame>>
    /\ UNCHANGED addInVars

\* Lines 83-90: targetBody is None before the loop and is bound by its first
\* iteration, so it is still None after the loop when there was no slice.
targetBodyIsNone(slices) == Len(slices) = 0

\* Line 106: after the last slice the target body is intersected with the
\* overlap; the kernel has no body to work on when targetBody is None.
IntersectWithBody ==
    /\ tool.line = "loop"
    /\ tool.i = Len(tool.slices)
    /\ IF targetBodyIsNone(tool.slices)
       THEN tool' = [tool EXCEPT !.line = "raised"]
       ELSE tool' = [tool EXCEPT !.ops = Append(tool.ops, "intersection"),
                                 !.line = "scale"]
    /\ UNCHANGED <<inputs, pc, height, dimensions, toolBodies, result, calls, frame>>
    /\ UNCHANGED addInVars

\* Lines 112-123: the target body is scaled in x and y and returned.
ScaleToolBody ==
    /\ tool.line = "scale"
    /\ LET gapToPart == RInt(tool.gapToPart)
           scaleFactorX ==
               RDiv(RAdd(tool.length, RMul(RInt(2), gapToPart)), tool.length)
           scaleFactorY ==
               RDiv(RAdd(tool.width, RMul(RInt(2), gapToPart)), tool.width)
           scaleFactor == RMax(scaleFactorX, scaleFactorY)
       IN  tool' = [tool EXCEPT
               !.scale = <<scaleFactor, scaleFactor, RInt(1)>>,
               !.ops = Append(tool.ops, "transform"),
               !.line = "returned"]
    /\ UNCHANGED <<inputs, pc, height, dimensions, toolBodies, result, calls, frame>>
    /\ UNCHANGED addInVars

NextTool ==
    \/ ReadBoundingBox
    \/ StackSlice
    \/ IntersectWithBody
    \/ ScaleToolBody

ToolSpec == InitTool /\ [][NextTool]_vars

(***************************************************************************)
(* geometry.CoordinateSystem.__init__, lines 18-55, and the transform of   *)
(* the overlap at line 136. Points and vectors are triples of rationals,   *)
(* a body is the set of its vertices.                                      *)
(***************************************************************************)
VAdd(a, b) == <<RAdd(a[1], b[1]), RAdd(a[2], b[2]), RAdd(a[3], b[3])>>
VSub(a, b) == <<RSub(a[1], b[1]), RSub(a[2], b[2]), RSub(a[3], b[3])>>
VScale(k, a) == <<RMul(k, a[1]), RMul(k, a[2]), RMul(k, a[3])>>
Dot(a, b) == RAdd(RAdd(RMul(a[1], b[1]), RMul(a[2], b[2])), RMul(a[3], b[3]))
IntVector(a) == <<RInt(a[1]), RInt(a[2]), RInt(a[3])>>
ZeroVector == IntVector(<<0, 0, 0>>)

\* Vector3D.crossProduct.
crossProduct(a, b) ==
    <<RSub(RMul(a[2], b[3]), RMul(a[3], b[2])),
      RSub(RMul(a[3], b[1]), RMul(a[1], b[3])),
      RSub(RMul(a[1], b[2]), RMul(a[2], b[1]))>>

\* The square root of a rational that is the square of a rational (the
\* directions drawn have rational lengths).
ISqrt(k) == CHOOSE x \in 0..k : x * x = k
RSqrt(r) == Rat(ISqrt(r[1]), ISqrt(r[2]))

\* Vector3D.normalize and Vector3D.isParallelTo.
normalize(a) == VScale(RDiv(RInt(1), RSqrt(Dot(a, a))), a)
isParallelTo(a, b) == crossProduct(a, b) = ZeroVector

\* Lines 7-15.
findOrthogonalUnitVectors(z) ==
    LET v == IF isParallelTo(IntVector(<<1, 0, 0>>), z)
             THEN IntVector(<<0, 1, 0>>) ELSE IntVector(<<1, 0, 0>>)
        x == normalize(crossProduct(z, v))
        y == normalize(crossProduct(z, x))
    IN  <<x, y>>

\* Matrix3D.setWithCoordinateSystem: the matrix that maps the local
\* coordinates p to origin + p[1]*xAxis + p[2]*yAxis + p[3]*zAxis.
setWithCoordinateSystem(origin, xAxis, yAxis, zAxis) ==
    [origin |-> origin, cols |-> <<xAxis, yAxis, zAxis>>]

\* Point3D.transformBy and TemporaryBRepManager.transform.
transformBy(p, m) ==
    VAdd(m.origin,
         VAdd(VScale(p[1], m.cols[1]),
              VAdd(VScale(p[2], m.cols[2]), VScale(p[3], m.cols[3]))))
transform(body, m) == {transformBy(p, m) : p \in body}

\* Matrix3D.invert, by the adjugate: the rows of the inverse of the linear
\* part are the cross products of its columns over the determinant.
invert(m) ==
    LET x == m.cols[1]
        y == m.cols[2]
        z == m.cols[3]
        det == Dot(x, crossProduct(y, z))
        rows == <<VScale(RDiv(RInt(1), det), crossProduct(y, z)),
                  VScale(RDiv(RInt(1), det), crossProduct(z, x)),
                  VScale(RDiv(RInt(1), det), crossProduct(x, y))>>
        col(j) == <<rows[1][j], rows[2][j], rows[3][j]>>
        linear == [origin |-> ZeroVector, cols |-> <<col(1), col(2), col(3)>>]
    IN  [linear EXCEPT
           !.origin = VSub(ZeroVector, transformBy(m.origin, linear))]

\* BRepBody.boundingBox of a body with flat faces.
RMinOf(S) == CHOOSE a \in S : \A b \in S : RLe(a, b)
RMaxOf(S) == CHOOSE a \in S : \A b \in S : RLe(b, a)
boundingBox(body) ==
    [minPoint |-> <<RMinOf({p[1] : p \in body}), RMinOf({p[2] : p \in body}),
                    RMinOf({p[3] : p \in body})>>,
     maxPoint |-> <<RMaxOf({p[1] : p \in body}), RMaxOf({p[2] : p \in body}),
                    RMaxOf({p[3] : p \in body})>>]

\* The edges and sketch lines that give the direction: from one of two start
\* points along a vector of rational length.
DirectionVectors ==
    {<<1, 0, 0>>, <<-1, 0, 0>>, <<0, 2, 0>>, <<0, -1, 0>>, <<0, 0, 1>>,
     <<0, 0, -2>>, <<3, 4, 0>>, <<0, 3, 4>>, <<4, 0, -3>>, <<-3, 0, 4>>,
     <<15, 12, 16>>}
StartPoints == {<<0, 0, 0>>, <<1, -2, 3>>}
Directions ==
    {[start |-> IntVector(o), end |-> VAdd(IntVector(o), IntVector(v))] :
        o \in StartPoints, v \in DirectionVectors}

\* The overlaps: boxes and corner tetrahedra with edges along the global
\* axes, of extents 1..MaxExtent.
Corners == {<<0, 0, 0>>, <<-1, 2, 1>>}
BoxAt(c, a, b, h) ==
    {IntVector(<<c[1] + i * a, c[2] + j * b, c[3] + k * h>>) :
        i \in 0..1, j \in 0..1, k \in 0..1}
TetrahedronAt(c, a, b, h) ==
    {IntVector(c), IntVector(<<c[1] + a, c[2], c[3]>>),
     IntVector(<<c[1], c[2] + b, c[3]>>), IntVector(<<c[1], c[2], c[3] + h>>)}
Bodies ==
    {BoxAt(c, a, b, h) :
        c \in Corners, a \in 1..MaxExtent, b \in 1..MaxExtent, h \in 1..MaxExtent}
    \cup
    {TetrahedronAt(c, a, b, h) :
        c \in Corners, a \in 1..MaxExtent, b \in 1..MaxExtent, h \in 1..MaxExtent}

UnboundVector == <<Unbound, Unbound, Unbound>>
UnboundMatrix ==
    [origin |-> UnboundVector,
     cols |-> <<UnboundVector, UnboundVector, UnboundVector>>]

\* Line 19: the call CoordinateSystem(direction, body) before its first
\* statement; overlap is the body createToolBodies holds.
FrameCall(direction, body) ==
    [line |-> "start", direction |-> direction, overlap |-> body,
     origin |-> UnboundVector, xAxis |-> UnboundVector,
     yAxis |-> UnboundVector, zAxis |-> UnboundVector,
     preliminaryTransform |-> UnboundMatrix,
     inversePreliminaryTransform |-> UnboundMatrix,
     cx |-> Unbound, cy |-> Unbound, minz |-> Unbound,
     transform |-> UnboundMatrix, inverseTransform |-> UnboundMatrix]

\* options.py lines 57-65: the options as constructed.
DefaultOptions ==
    [placementType |-> FINGERS_OUTSIDE,
     dynamicSizeType |-> EQUAL_NOTCH_AND_FINGER_SIZE,
     isNumberOfFingersFixed |-> FALSE,
     fixedNumFingers |-> 3,
     fixedNotchSize |-> DefaultLength,
     fixedFingerSize |-> DefaultLength,
     minNotchSize |-> DefaultLength,
     minFingerSize |-> DefaultLength,
     gap |-> 0]

\* createToolBodies is at line 135 and calls CoordinateSystem.
InitFrame ==
    /\ NoAddIn
    /\ inputs = DefaultOptions
    /\ pc = "overlap"
    /\ height = 0
    /\ dimensions = NotCalled
    /\ toolBodies = <<>>
    /\ result = "running"
    /\ calls = <<"createBodyFromOverlap">>
    /\ tool = NoToolCall
    /\ \E direction \in Directions, body \in Bodies :
           frame = FrameCall(direction, body)

\* Lines 22-31: the origin at the start of the direction, the unit vector
\* along it and two unit vectors orthogonal to it.
DefineAxes ==
    /\ frame.line = "start"
    /\ LET zAxis == normalize(VSub(frame.direction.end, frame.direction.start))
           xy == findOrthogonalUnitVectors(zAxis)
       IN  frame' = [frame EXCEPT !.origin = frame.direction.start,
                                  !.zAxis = zAxis,
                                  !.xAxis = xy[1],
                                  !.yAxis = xy[2],
                                  !.line = "axes"]
    /\ UNCHANGED <<inputs, pc, height, dimensions, toolBodies, result, calls, tool>>
    /\ UNCHANGED addInVars

\* Lines 34-37.
SetPreliminaryTransform ==
    /\ frame.line = "axes"
    /\ LET preliminaryTransform ==
               setWithCoordinateSystem(frame.origin, frame.xAxis, frame.yAxis,
                                       frame.zAxis)
       IN  frame' = [frame EXCEPT
               !.preliminaryTransform = preliminaryTransform,
               !.inversePreliminaryTransform = invert(preliminaryTransform),
               !.line = "preliminary"]
    /\ UNCHANGED <<inputs, pc, height, dimensions, toolBodies, result, calls, tool>>
    /\ UNCHANGED addInVars

\* Lines 40-46: the bounding box of a copy of the body in the preliminary
\* frame.
MeasureLocalCopy ==
    /\ frame.line = "preliminary"
    /\ LET body_local == transform(frame.overlap, frame.inversePreliminaryTransform)
           bb == boundingBox(body_local)
       IN  frame' = [frame EXCEPT
               !.cx = RDiv(RAdd(bb.minPoint[1], bb.maxPoint[1]), RInt(2)),
               !.cy = RDiv(RAdd(bb.minPoint[2], bb.maxPoint[2]), RInt(2)),
               !.minz = bb.minPoint[3],
               !.line = "measured"]
    /\ UNCHANGED <<inputs, pc, height, dimensions, toolBodies, result, calls, tool>>
    /\ UNCHANGED addInVars

\* Lines 49-50: the origin of the frame in global coordinates.
FinalOrigin_NotTransformed(cx, cy, minz, preliminaryTransform) == <<cx, cy, minz>>
FinalOrigin(cx, cy, minz, preliminaryTransform) ==
    transformBy(<<cx, cy, minz>>, preliminaryTransform)

\* Lines 49-54: the frame with the origin below the centre of the body; the
\* call returns to line 135.
SetFinalTransform ==
    /\ frame.line = "measured"
    /\ LET origin == FinalOrigin(frame.cx, frame.cy, frame.minz,
                                 frame.preliminaryTransform)
           final == setWithCoordinateSystem(origin, frame.xAxis, frame.yAxis,
                                            frame.zAxis)
       IN  frame' = [frame EXCEPT !.origin = origin,
                                  !.transform = final,
                                  !.inverseTransform = invert(final),
                                  !.line = "returned"]
    /\ pc' = "frame"
    /\ calls' = Append(calls, "CoordinateSystem")
    /\ UNCHANGED <<inputs, height, dimensions, toolBodies, result, tool>>
    /\ UNCHANGED addInVars

\* Line 136 with lines 57-59: the overlap is moved into the frame.
TransformOverlapToLocal ==
    /\ frame.line = "returned"
    /\ pc = "frame"
    /\ frame' = [frame EXCEPT
          !.overlap = transform(frame.overlap, frame.inverseTransform),
          !.line = "local"]
    /\ pc' = "local"
    /\ calls' = Append(calls, "transformToLocalCoordinates")
    /\ UNCHANGED <<inputs, height, dimensions, toolBodies, result, tool>>
    /\ UNCHANGED addInVars

NextFrame ==
    \/ DefineAxes
    \/ SetPreliminaryTransform
    \/ MeasureLocalCopy
    \/ SetFinalTransform
    \/ TransformOverlapToLocal

FrameSpec == InitFrame /\ [][NextFrame]_vars

\* The variables of geometry.py and their values while none of its
\* functions is being called.
geometryVars == <<inputs, pc, height, dimensions, toolBodies, result, calls,
                  tool, frame>>
NoGeometryCall ==
    /\ inputs = DefaultOptions
    /\ pc = "start"
    /\ height = 0
    /\ dimensions = NotCalled
    /\ toolBodies = <<>>
    /\ result = "running"
    /\ calls = <<>>
    /\ tool = NoToolCall
    /\ frame = NoFrameCall

(***************************************************************************)
(* The running commands: commands.RunningCommandBase and AddIn,            *)
(* FingerJoints.FingerJointCommand and its two subclasses.                 *)
(***************************************************************************)
MaxCommands == 3    \* the command objects constructed in one behaviour

RunningCommandBase == "RunningCommandBase"
FingerJointCommand == "FingerJointCommand"
CreateFingerJointCommand == "CreateFingerJointCommand"
EditFingerJointCommand == "EditFingerJointCommand"

\* The method resolution order of a class (its class statement and those of
\* its bases).
mro(cls) ==
    IF cls = CreateFingerJointCommand
    THEN <<CreateFingerJointCommand, FingerJointCommand, RunningCommandBase>>
    ELSE IF cls = EditFingerJointCommand
    THEN <<EditFingerJointCommand, FingerJointCommand, RunningCommandBase>>
    ELSE IF cls = FingerJointCommand
    THEN <<FingerJointCommand, RunningCommandBase>>
    ELSE <<RunningCommandBase>>

\* Which of __init__, onCreate and onDestroy the body of a class defines.
Defines(cls, method) ==
    IF cls = RunningCommandBase THEN method \in {"__init__", "onCreate", "onDestroy"}
    ELSE IF cls = FingerJointCommand THEN method \in {"onCreate", "onDestroy"}
    ELSE IF cls = CreateFingerJointCommand THEN method = "onCreate"
    ELSE method = "__init__"

\* Attribute lookup: the first class of the order that defines the method.
Lookup(order, method) ==
    order[CHOOSE k \in 1..Len(order) :
              /\ Defines(order[k], method)
              /\ \A j \in 1..(k - 1) : ~Defines(order[j], method)]

\* super(cls, self).method: the lookup goes on behind cls in the order of
\* the class of self.
SuperLookup(cls, selfClass, method) ==
    LET order == mro(selfClass)
        at == CHOOSE k \in 1..Len(order) : order[k] = cls
    IN  Lookup(SubSeq(order, at + 1, Len(order)), method)

\* The classes whose bodies of the method run when it is called on an object
\* of class selfClass.  Each overriding body calls
\* super(FingerJointCommand, self).method (FingerJoints.py lines 61, 111,
\* 118, 147); the bodies of RunningCommandBase call no other.
MethodsRun_NoSuperCall(selfClass, method) ==
    <<Lookup(mro(selfClass), method)>>
MethodsRun(selfClass, method) ==
    LET first == Lookup(mro(selfClass), method)
    IN  IF first = RunningCommandBase THEN <<first>>
        ELSE <<first, SuperLookup(FingerJointCommand, selfClass, method)>>

Runs(cls, selfClass, method) ==
    LET run == MethodsRun(selfClass, method)
    IN  \E k \in 1..Len(run) : run[k] = cls

\* commands.py line 34 and line 93, where the call reaches them.
AfterInit(running, self, selfClass) ==
    IF Runs(RunningCommandBase, selfClass, "__init__")
    THEN running \cup {self} ELSE running
AfterOnDestroy(running, self, selfClass) ==
    IF Runs(RunningCommandBase, selfClass, "onDestroy")
    THEN running \ {self} ELSE running

\* What activeSelections.item(0).entity gives the constructor of the edit
\* command (FingerJoints.py line 149): the feature, or None (the case that
\* loadOptions tests at line 152).
Selections == {"feature", "None"}
TerminationReasons == {"Completed", "Cancelled"}

\* A command object: self is its identity, handlers tells whether
\* RunningCommandBase.onCreate registered its handlers (lines 36-69),
\* hasOptions whether self.options is an options object.
Command(self, cls, handlers, hasOptions) ==
    [self |-> self, cls |-> cls,
     handlers |-> handlers, hasOptions |-> hasOptions,
     destroyed |-> FALSE, defaultsWritten |-> FALSE]

InitCommands ==
    /\ NoGeometryCall
    /\ running_commands = {}
    /\ commands = <<>>
    /\ ui = NoDialog
    /\ options = NoDialog
    /\ events = NoDialog

\* commands.py lines 137-139: the create button was pressed.
OnCreate ==
    /\ Len(commands) < MaxCommands
    /\ LET self == Len(commands) + 1
           cls == CreateFingerJointCommand
       IN  /\ running_commands' = AfterInit(running_commands, self, cls)
           /\ commands' = Append(commands,
                  Command(self, cls,
                          Runs(RunningCommandBase, cls, "onCreate"), TRUE))
    /\ UNCHANGED <<ui, options, events>>
    /\ UNCHANGED geometryVars

\* commands.py lines 141-143: a feature is edited.
OnEdit ==
    /\ Len(commands) < MaxCommands
    /\ \E selection \in Selections :
        LET self == Len(commands) + 1
            cls == EditFingerJointCommand
        IN  /\ running_commands' = AfterInit(running_commands, self, cls)
            /\ commands' = Append(commands,
                   Command(self, cls,
                           Runs(RunningCommandBase, cls, "onCreate"),
                           selection = "feature"))
    /\ UNCHANGED <<ui, options, events>>
    /\ UNCHANGED geometryVars

\* The destroy event of a command whose handlers are registered
\* (FingerJoints.py lines 110-113 and commands.py lines 92-93); line 113
\* raises on an edit command without options, after the removal.
OnDestroy ==
    /\ \E k \in 1..Len(commands), terminationReason \in TerminationReasons :
        LET c == commands[k]
        IN  /\ c.handlers
            /\ ~c.destroyed
            /\ running_commands' = AfterOnDestroy(running_commands, c.self, c.cls)
            /\ commands' = [commands EXCEPT
                   ![k].destroyed = TRUE,
                   ![k].defaultsWritten =
                       terminationReason = "Completed" /\ c.hasOptions]
    /\ UNCHANGED <<ui, options, events>>
    /\ UNCHANGED geometryVars

NextCommands ==
    \/ OnCreate
    \/ OnEdit
    \/ OnDestroy

CommandSpec == InitCommands /\ [][NextCommands]_vars

(***************************************************************************)
(* The dialog of a command: ui.FingerJointUI and the event handlers of     *)
(* FingerJoints.FingerJointCommand.                                        *)
(***************************************************************************)
MaxEdits == 3       \* the inputs the user changes in one behaviour

\* What a getter returns: None, or a value (a set with the value as its only
\* element).
None == {}
Value(v) == {v}
ValueOf(returned) == CHOOSE v \in returned : TRUE

\* The values the user gives the length inputs and the spinner.
DialogLengths == 0..MaxLen
DialogCounts == 1..MaxCount

\* options.py lines 57-66: the options as constructed.
DialogDefaults ==
    [placementType |-> FINGERS_OUTSIDE,
     dynamicSizeType |-> EQUAL_NOTCH_AND_FINGER_SIZE,
     isNumberOfFingersFixed |-> FALSE,
     fixedNumFingers |-> 3,
     fixedNotchSize |-> DefaultLength,
     fixedFingerSize |-> DefaultLength,
     minNotchSize |-> DefaultLength,
     minFingerSize |-> DefaultLength,
     gap |-> 0,
     isPreviewEnabled |-> TRUE]

\* options.py line 67: readDefaults replaces the values by those an earlier
\* command wrote; the ones of a joint with a fixed count are taken here.
SavedDefaults ==
    [DialogDefaults EXCEPT !.dynamicSizeType = FIXED_NOTCH_SIZE,
                           !.isNumberOfFingersFixed = TRUE,
                           !.gap = 1]

LengthInputs == {"fixedNotchSize", "fixedFingerSize", "minNotchSize", "minFingerSize"}

\* ui.py lines 97-104.
updateVisibility(u) ==
    LET dynamicSizeType == u.dynamicSizeType
        numberOfFingersFixed == u.isNumberOfFingersFixed
    IN  [u EXCEPT
            !.fixedNotchSize.isVisible = dynamicSizeType = FIXED_NOTCH_SIZE,
            !.fixedFingerSize.isVisible = dynamicSizeType = FIXED_FINGER_SIZE,
            !.fixedNumFingers.isVisible = numberOfFingersFixed,
            !.minNotchSize.isVisible =
                ~numberOfFingersFixed /\ dynamicSizeType = FIXED_FINGER_SIZE,
            !.minFingerSize.isVisible =
                ~numberOfFingersFixed /\ dynamicSizeType # FIXED_FINGER_SIZE]

\* ui.py lines 8-91: the inputs are created with the values of the options
\* and their visibility is set.
ValueInput(value) == [value |-> value, isValidExpression |-> TRUE, isVisible |-> TRUE]
FingerJointUI(defaults) ==
    updateVisibility(
        [placementType |-> defaults.placementType,
         isNumberOfFingersFixed |-> defaults.isNumberOfFingersFixed,
         fixedNumFingers |-> [value |-> defaults.fixedNumFingers, isVisible |-> TRUE],
         dynamicSizeType |-> defaults.dynamicSizeType,
         fixedNotchSize |-> ValueInput(defaults.fixedNotchSize),
         fixedFingerSize |-> ValueInput(defaults.fixedFingerSize),
         minNotchSize |-> ValueInput(defaults.minNotchSize),
         minFingerSize |-> ValueInput(defaults.minFingerSize),
         isPreviewEnabled |-> defaults.isPreviewEnabled,
         errorMessage |-> ""])

\* ui.py lines 93-95.
getDistanceInputValue_IgnoringVisibility(input) ==
    IF input.isValidExpression THEN Value(input.value) ELSE None
getDistanceInputValue(input) ==
    IF input.isVisible /\ input.isValidExpression THEN Value(input.value) ELSE None

\* ui.py lines 124-126.
getFixedNumFingers(u) ==
    IF u.fixedNumFingers.isVisible THEN Value(u.fixedNumFingers.value) ELSE None

\* ui.py lines 131-141.
getFixedNotchSize(u) == getDistanceInputValue(u.fixedNotchSize)
getFixedFingerSize(u) == getDistanceInputValue(u.fixedFingerSize)
getMinNotchSize(u) == getDistanceInputValue(u.minNotchSize)
getMinFingerSize(u) == getDistanceInputValue(u.minFingerSize)

\* ui.py lines 146-156.
formattedTextOf(msg) ==
    IF msg # "" THEN "<p style=\"color:red\">" \o msg \o "</p>" ELSE ""
setInputErrorMessage(u, msg) ==
    LET formattedText == formattedTextOf(msg)
    IN  IF u.errorMessage # formattedText
        THEN [u EXCEPT !.errorMessage = formattedText]
        ELSE u

\* ui.py lines 164-179.
setRelevantOptions(u, o) ==
    [o EXCEPT
        !.dynamicSizeType = u.dynamicSizeType,
        !.placementType = u.placementType,
        !.isNumberOfFingersFixed = u.isNumberOfFingersFixed,
        !.fixedNumFingers =
            IF getFixedNumFingers(u) # None THEN ValueOf(getFixedNumFingers(u)) ELSE @,
        !.fixedNotchSize =
            IF getFixedNotchSize(u) # None THEN ValueOf(getFixedNotchSize(u)) ELSE @,
        !.fixedFingerSize =
            IF getFixedFingerSize(u) # None THEN ValueOf(getFixedFingerSize(u)) ELSE @,
        !.minNotchSize =
            IF getMinNotchSize(u) # None THEN ValueOf(getMinNotchSize(u)) ELSE @,
        !.minFingerSize =
            IF getMinFingerSize(u) # None THEN ValueOf(getMinFingerSize(u)) ELSE @,
        !.isPreviewEnabled = u.isPreviewEnabled]

\* ui.py lines 181-196 without line 195: valid and errorMessage; line 184
\* raises when it compares None with 2.
OneFingerMessage ==
    "When using one finger on each edge, there have to be at least two fingers."
NotPositive(input) ==
    input.isVisible /\ (getDistanceInputValue(input) = None
                        \/ ValueOf(getDistanceInputValue(input)) <= 0)
areInputsValid(u) ==
    LET compared == u.placementType = FINGERS_OUTSIDE /\ u.isNumberOfFingersFixed
        tooFew == compared /\ getFixedNumFingers(u) # None
                           /\ ValueOf(getFixedNumFingers(u)) < 2
    IN  [raised |-> compared /\ getFixedNumFingers(u) = None,
         valid |-> ~(\/ tooFew
                     \/ NotPositive(u.fixedNotchSize)
                     \/ NotPositive(u.fixedFingerSize)
                     \/ NotPositive(u.minNotchSize)
                     \/ NotPositive(u.minFingerSize)),
         errorMessage |-> IF tooFew THEN OneFingerMessage ELSE ""]

\* FingerJoints.py lines 82 and 89.
NotCompletedMessage ==
    "Finger joints could not be completed. Try selecting overlapping bodies and double-check the dimensions."

\* FingerJoints.py lines 91-105: doExecute returns True, returns False, or
\* is left by an exception of createToolBodies.
DoExecuteOutcomes == {"True", "False", "raised"}

\* The events the application has pending for the dialog: inputChanged is
\* raised by a changed input, next is the event that follows the handler
\* that ran last, valid is what the last validation answered.
Pending(inputChanged, next, valid, edits) ==
    [inputChanged |-> inputChanged, next |-> next, valid |-> valid, edits |-> edits]

\* FingerJoints.py lines 60-64: the dialog of a new command; the application
\* validates the inputs of a dialog it shows.
InitDialog ==
    /\ NoGeometryCall
    /\ running_commands = {1}
    /\ commands = <<Command(1, CreateFingerJointCommand, TRUE, TRUE)>>
    /\ options \in {DialogDefaults, SavedDefaults}
    /\ ui = FingerJointUI(options)
    /\ events = Pending(FALSE, "validateInputs", FALSE, 0)

\* The user changes one input of the dialog that waits for input; a hidden
\* input cannot be changed.
UserEdit ==
    /\ events.next = "none"
    /\ ~events.inputChanged
    /\ events.edits < MaxEdits
    /\ \/ \E v \in PlacementType \ {ui.placementType} :
              ui' = [ui EXCEPT !.placementType = v]
       \/ \E v \in DynamicSizeType \ {ui.dynamicSizeType} :
              ui' = [ui EXCEPT !.dynamicSizeType = v]
       \/ ui' = [ui EXCEPT !.isNumberOfFingersFixed = ~@]
       \/ ui' = [ui EXCEPT !.isPreviewEnabled = ~@]
       \/ /\ ui.fixedNumFingers.isVisible
          /\ \E v \in DialogCounts \ {ui.fixedNumFingers.value} :
                 ui' = [ui EXCEPT !.fixedNumFingers.value = v]
       \/ \E f \in LengthInputs :
              /\ ui[f].isVisible
              /\ \/ \E v \in DialogLengths \ {ui[f].value} :
                        ui' = [ui EXCEPT ![f].value = v,
                                         ![f].isValidExpression = TRUE]
                 \/ /\ ui[f].isValidExpression
                    /\ ui' = [ui EXCEPT ![f].isValidExpression = FALSE]
    /\ events' = [events EXCEPT !.inputChanged = TRUE, !.edits = @ + 1]
    /\ UNCHANGED <<running_commands, commands, options>>
    /\ UNCHANGED geometryVars

\* FingerJoints.py lines 69-71; the inputs are validated next.
OnInputChanged ==
    /\ events.inputChanged
    /\ events.next # "closed"
    /\ ui' = updateVisibility(ui)
    /\ events' = [events EXCEPT !.inputChanged = FALSE, !.next = "validateInputs"]
    /\ UNCHANGED <<running_commands, commands, options>>
    /\ UNCHANGED geometryVars

\* FingerJoints.py lines 73-74 and ui.py lines 181-196; assigning a new
\* text to the text box raises inputChanged, and the preview follows a
\* successful validation.
OnValidate ==
    /\ events.next = "validateInputs"
    /\ LET answer == areInputsValid(ui)
       IN  IF answer.raised
           THEN /\ ui' = ui
                /\ events' = [events EXCEPT !.next = "none", !.valid = FALSE]
           ELSE /\ ui' = setInputErrorMessage(ui, answer.errorMessage)
                /\ events' = [events EXCEPT
                       !.inputChanged = @ \/ ui'.errorMessage # ui.errorMessage,
                       !.next = IF answer.valid THEN "executePreview" ELSE "none",
                       !.valid = answer.valid]
    /\ UNCHANGED <<running_commands, commands, options>>
    /\ UNCHANGED geometryVars

\* FingerJoints.py lines 76-82, with line 92 of doExecute.
OnExecutePreview ==
    /\ events.next = "executePreview"
    /\ IF ui.isPreviewEnabled
       THEN /\ options' = setRelevantOptions(ui, options)
            /\ \E outcome \in DoExecuteOutcomes :
                   ui' = IF outcome = "True" THEN setInputErrorMessage(ui, "")
                         ELSE IF outcome = "False"
                         THEN setInputErrorMessage(ui, NotCompletedMessage)
                         ELSE ui
       ELSE UNCHANGED <<ui, options>>
    /\ events' = [events EXCEPT
           !.inputChanged = @ \/ ui'.errorMessage # ui.errorMessage,
           !.next = "none"]
    /\ UNCHANGED <<running_commands, commands>>
    /\ UNCHANGED geometryVars

\* FingerJoints.py lines 84-89, with line 92 of doExecute: the user confirms
\* a dialog whose inputs are valid, and the dialog closes.
OnExecute ==
    /\ events.next = "none"
    /\ ~events.inputChanged
    /\ events.valid
    /\ options' = setRelevantOptions(ui, options)
    /\ events' = [events EXCEPT !.next = "closed"]
    /\ UNCHANGED <<running_commands, commands, ui>>
    /\ UNCHANGED geometryVars

NextDialog ==
    \/ UserEdit
    \/ OnInputChanged
    \/ OnValidate
    \/ OnExecutePreview
    \/ OnExecute

DialogSpec == InitDialog /\ [][NextDialog]_vars

\* The texts the error text box holds: line 150, and line 148 on the message
\* of ui.py line 186 and on the one of FingerJoints.py line 82.
ErrorTexts ==
    {formattedTextOf(msg) : msg \in {"", OneFingerMessage, NotCompletedMessage}}

\* The states the user leaves a visible input in; a hidden input keeps the
\* one it was created with.
ValueInputStates(input) ==
    IF input.isVisible
    THEN {[input EXCEPT !.value = v, !.isValidExpression = ok] :
              v \in DialogLengths, ok \in BOOLEAN}
    ELSE {input}
SpinnerStates(input) ==
    IF input.isVisible
    THEN {[input EXCEPT !.value = v] : v \in DialogCounts}
    ELSE {input}

\* The modes a dialog shows.
DialogModes ==
    {[DialogDefaults EXCEPT !.placementType = p, !.dynamicSizeType = d,
                            !.isNumberOfFingersFixed = f, !.isPreviewEnabled = e] :
         p \in PlacementType, d \in DynamicSizeType, f \in BOOLEAN, e \in BOOLEAN}

\* The event cycle of the dialog: the user has changed an input of a dialog
\* in any state (inputChanged is pending) and changes none afterwards.
InitCycle ==
    /\ NoGeometryCall
    /\ running_commands = {1}
    /\ commands = <<Command(1, CreateFingerJointCommand, TRUE, TRUE)>>
    /\ options = DialogDefaults
    /\ \E modes \in DialogModes, text \in ErrorTexts :
        LET shown == FingerJointUI(modes)
        IN  \E n \in SpinnerStates(shown.fixedNumFingers),
               a \in ValueInputStates(shown.fixedNotchSize),
               b \in ValueInputStates(shown.fixedFingerSize),
               c \in ValueInputStates(shown.minNotchSize),
               d \in ValueInputStates(shown.minFingerSize) :
                ui = [shown EXCEPT !.fixedNumFingers = n,
                                   !.fixedNotchSize = a,
                                   !.fixedFingerSize = b,
                                   !.minNotchSize = c,
                                   !.minFingerSize = d,
                                   !.errorMessage = text]
    /\ events = Pending(TRUE, "none", FALSE, 0)

NextCycle ==
    \/ OnInputChanged
    \/ OnValidate
    \/ OnExecutePreview

CycleSpec == InitCycle /\ [][NextCycle]_vars

\* The application delivers every event it has pending.
FairCycleSpec ==
    /\ CycleSpec
    /\ WF_vars(OnInputChanged)
    /\ WF_vars(OnValidate)
    /\ WF_vars(OnExecutePreview)

TypeOK ==
    /\ inputs \in Options \cup ScenarioOptions
    /\ pc \in {"start", "overlap", "frame", "local", "resolve", "fingerTool",
              "notchTool", "done"}
    /\ height \in Heights \cup ScenarioCountSizes
    /\ dimensions.kind \in {"NotCalled", "ZeroDivisionError", "None", "Dimensions"}
    /\ Len(toolBodies) <= 2
    /\ result \in {"running", "True", "False", "ZeroDivisionError", "ToolBodies"}

(***************************************************************************)
(* Properties of the layout resolution                                     *)
(***************************************************************************)
Concrete == dimensions.kind = "Dimensions"
Infeasible == dimensions.kind = "None"
Resolved == dimensions.kind # "NotCalled"
CountSum == dimensions.locals.numFingers + dimensions.locals.numNotches
SizeR == RInt(height)
GapR == RInt(inputs.gap)
StartsWithFinger == inputs.placementType \in {FINGERS_OUTSIDE, SAME_NUMBER_START_FINGER}

\* C1: every concrete layout has fingerLength > epsilon, notchLength >
\* epsilon, numFingers >= 0, numNotches >= 0 and an occupied length
\* fingerLength*numFingers + notchLength*numNotches + (numFingers+numNotches-1)*gap
\* of at most size + epsilon.
C1_ConcreteLayoutIsValid ==
    Concrete =>
        LET d == dimensions.locals
        IN  /\ RLt(epsilon, d.fingerSize)
            /\ RLt(epsilon, d.notchSize)
            /\ d.numFingers >= 0
            /\ d.numNotches >= 0
            /\ RLe(RAdd(RAdd(RMul(d.fingerSize, RInt(d.numFingers)),
                             RMul(d.notchSize, RInt(d.numNotches))),
                        RMul(RInt(d.numFingers + d.numNotches - 1), GapR)),
                   RAdd(SizeR, epsilon))

\* A concrete layout of a dynamic-count branch with a positive gap whose
\* fingers and notches have different lengths.
C1_Witness ==
    /\ Concrete
    /\ ~inputs.isNumberOfFingersFixed
    /\ inputs.gap > 0
    /\ dimensions.locals.fingerSize # dimensions.locals.notchSize

\* C2: for every size > 0 and every policy of the data model the resolution
\* ends as Infeasible or as a concrete pair of slice lists, never in an
\* arithmetic failure.
C2_NoArithmeticFailure ==
    Resolved => dimensions.kind \in {"None", "Dimensions"}

\* C3: in a concrete layout the finger-tool list has numNotches entries
\* (notchStart + i*spacing - gap, notchLength + 2*gap) and the notch-tool list
\* has numFingers entries (fingerStart + i*spacing - gap, fingerLength + 2*gap),
\* where fingerStart = 0 and notchStart = fingerLength + gap when the placement
\* starts with a finger, fingerStart = notchLength + gap and notchStart = 0
\* otherwise, and spacing = fingerLength + notchLength + 2*gap.
C3_SliceLists ==
    Concrete =>
        LET d == dimensions.locals
            two == RInt(2)
            fingerStart == IF StartsWithFinger THEN RInt(0) ELSE RAdd(d.notchSize, GapR)
            notchStart == IF StartsWithFinger THEN RAdd(d.fingerSize, GapR) ELSE RInt(0)
            spacing == RAdd(RAdd(d.fingerSize, d.notchSize), RMul(two, GapR))
            ft == dimensions.fingerToolDimensions
            nt == dimensions.notchToolDimensions
        IN  /\ Len(ft) = d.numNotches
            /\ Len(nt) = d.numFingers
            /\ \A i \in 0..(d.numNotches - 1) :
                   ft[i + 1] = <<RSub(RAdd(notchStart, RMul(RInt(i), spacing)), GapR),
                                 RAdd(d.notchSize, RMul(two, GapR))>>
            /\ \A i \in 0..(d.numFingers - 1) :
                   nt[i + 1] = <<RSub(RAdd(fingerStart, RMul(RInt(i), spacing)), GapR),
                                 RAdd(d.fingerSize, RMul(two, GapR))>>

\* A concrete layout that starts with a notch, has a positive gap and at least
\* two slices in each list.
C3_Witness ==
    /\ Concrete
    /\ ~StartsWithFinger
    /\ inputs.gap > 0
    /\ Len(dimensions.fingerToolDimensions) >= 2
    /\ Len(dimensions.notchToolDimensions) >= 2

\* C4: whenever the resolved counts satisfy numFingers + numNotches = 1 the
\* result is Infeasible and no slice list is produced.
C4_SingleUnitIsInfeasible ==
    (Resolved /\ dimensions.locals.hasCounts /\ CountSum = 1) =>
        /\ Infeasible
        /\ dimensions.fingerToolDimensions = <<>>
        /\ dimensions.notchToolDimensions = <<>>

\* C5: when the overlap's extent along the local z axis is <= 0,
\* createToolBodies returns True and neither resolves a layout nor builds a
\* tool body.
C5_NoCutNeeded ==
    (pc \notin {"start", "overlap", "frame", "local"} /\ height <= 0) =>
        /\ pc = "done"
        /\ result = "True"
        /\ dimensions = NotCalled
        /\ toolBodies = <<>>

\* The call has returned for an overlap of extent exactly 0.
C5_Witness ==
    pc = "done" /\ height = 0 /\ result = "True"

\* C6: in fixed-count mode numFingers = fixedFingerCount, numNotches is
\* fixedFingerCount - 1 (fingers outside), + 1 (notches outside) or + 0 (same
\* count); with totalGaps = numFingers + numNotches - 1 the lengths are
\* (size - totalGaps*gap)/(numFingers+numNotches) for both (equal size),
\* notchLength = fixedNotchLength and fingerLength =
\* (size - totalGaps*gap - numNotches*notchLength)/numFingers (fixed notch),
\* fingerLength = fixedFingerLength and notchLength =
\* (size - totalGaps*gap - numFingers*fingerLength)/numNotches (fixed finger);
\* every concrete layout of fixed-count mode has these counts and lengths.
C6_FixedCountLayout ==
    (Resolved /\ inputs.isNumberOfFingersFixed) =>
        LET d == dimensions.locals
            nF == inputs.fixedNumFingers
            nN == CASE inputs.placementType = FINGERS_OUTSIDE -> nF - 1
                    [] inputs.placementType = NOTCHES_OUTSIDE -> nF + 1
                    [] OTHER -> nF
            rest == height - (nF + nN - 1) * inputs.gap
            divisor == CASE inputs.dynamicSizeType = EQUAL_NOTCH_AND_FINGER_SIZE -> nF + nN
                         [] inputs.dynamicSizeType = FIXED_NOTCH_SIZE -> nF
                         [] OTHER -> nN
        IN  /\ d.hasCounts /\ d.numFingers = nF /\ d.numNotches = nN
            /\ d.hasSizes <=> divisor # 0
            /\ Concrete => d.hasSizes
            /\ d.hasSizes =>
                 CASE inputs.dynamicSizeType = EQUAL_NOTCH_AND_FINGER_SIZE ->
                        /\ d.fingerSize = Rat(rest, nF + nN)
                        /\ d.notchSize = Rat(rest, nF + nN)
                   [] inputs.dynamicSizeType = FIXED_NOTCH_SIZE ->
                        /\ d.notchSize = <<inputs.fixedNotchSize, 1>>
                        /\ d.fingerSize = Rat(rest - nN * inputs.fixedNotchSize, nF)
                   [] OTHER ->
                        /\ d.fingerSize = <<inputs.fixedFingerSize, 1>>
                        /\ d.notchSize = Rat(rest - nF * inputs.fixedFingerSize, nN)

\* A concrete fixed-count layout with notches outside, fingers of a fixed
\* size and a positive gap.
C6_Witness ==
    /\ Concrete
    /\ inputs.isNumberOfFingersFixed
    /\ inputs.placementType = NOTCHES_OUTSIDE
    /\ inputs.dynamicSizeType = FIXED_FINGER_SIZE
    /\ inputs.gap > 0

\* C7: with dynamic count and equal size, maxCount =
\* floor((size+gap)/(minFingerLength+gap)), both counts start at
\* floor(maxCount/2); fingers outside: odd maxCount adds a finger, even maxCount
\* removes a notch; notches outside: odd adds a notch, even removes a finger;
\* same count: no adjustment.  A count sum of 0 is Infeasible, otherwise both
\* lengths are (size - (numFingers+numNotches-1)*gap)/(numFingers+numNotches).
C7_DynamicEqualLayout ==
    (/\ Resolved
     /\ ~inputs.isNumberOfFingersFixed
     /\ inputs.dynamicSizeType = EQUAL_NOTCH_AND_FINGER_SIZE
     /\ inputs.minFingerSize + inputs.gap # 0) =>
        LET d == dimensions.locals
            maxCount == (height + inputs.gap) \div (inputs.minFingerSize + inputs.gap)
            half == maxCount \div 2
            odd == maxCount % 2 = 1
            nF == CASE inputs.placementType = FINGERS_OUTSIDE /\ odd -> half + 1
                    [] inputs.placementType = NOTCHES_OUTSIDE /\ ~odd -> half - 1
                    [] OTHER -> half
            nN == CASE inputs.placementType = FINGERS_OUTSIDE /\ ~odd -> half - 1
                    [] inputs.placementType = NOTCHES_OUTSIDE /\ odd -> half + 1
                    [] OTHER -> half
        IN  /\ d.hasCounts /\ d.numFingers = nF /\ d.numNotches = nN
            /\ IF nF + nN = 0
               THEN Infeasible /\ ~d.hasSizes
               ELSE /\ d.hasSizes
                    /\ d.fingerSize = Rat(height - (nF + nN - 1) * inputs.gap, nF + nN)
                    /\ d.notchSize = d.fingerSize

\* A concrete dynamic equal-size layout with notches outside, an even
\* maxCount and a positive gap.
C7_Witness ==
    /\ Concrete
    /\ ~inputs.isNumberOfFingersFixed
    /\ inputs.dynamicSizeType = EQUAL_NOTCH_AND_FINGER_SIZE
    /\ inputs.placementType = NOTCHES_OUTSIDE
    /\ inputs.gap > 0
    /\ ((height + inputs.gap) \div (inputs.minFingerSize + inputs.gap)) % 2 = 0

\* The count of the dynamic fixed-notch branch and what follows from it, for
\* the given rounding of the quotient.
C8_Holds(Round(_)) ==
    (/\ Resolved
     /\ ~inputs.isNumberOfFingersFixed
     /\ inputs.dynamicSizeType = FIXED_NOTCH_SIZE
     /\ inputs.fixedNotchSize + inputs.minFingerSize + 2 * inputs.gap # 0) =>
        LET d == dimensions.locals
            n == inputs.fixedNotchSize
            extra == CASE inputs.placementType = FINGERS_OUTSIDE -> -1
                       [] inputs.placementType = NOTCHES_OUTSIDE -> 1
                       [] OTHER -> 0
            nF == Round(Rat(height - extra * (n + inputs.gap) + inputs.gap,
                            n + inputs.minFingerSize + 2 * inputs.gap))
            nN == nF + extra
        IN  /\ d.hasCounts /\ d.numFingers = nF /\ d.numNotches = nN
            /\ d.notchSize = <<n, 1>>
            /\ IF nF = 0
               THEN Infeasible /\ ~d.hasSizes
               ELSE /\ d.hasSizes
                    /\ d.fingerSize = Rat(height - (nF + nN - 1) * inputs.gap - nN * n, nF)

C9_Holds(Round(_)) ==
    (/\ Resolved
     /\ ~inputs.isNumberOfFingersFixed
     /\ inputs.dynamicSizeType = FIXED_FINGER_SIZE
     /\ inputs.fixedFingerSize + inputs.minNotchSize + 2 * inputs.gap # 0) =>
        LET d == dimensions.locals
            f == inputs.fixedFingerSize
            extra == CASE inputs.placementType = FINGERS_OUTSIDE -> 1
                       [] inputs.placementType = NOTCHES_OUTSIDE -> -1
                       [] OTHER -> 0
            nN == Round(Rat(height - extra * (f + inputs.gap) + inputs.gap,
                            f + inputs.minNotchSize + 2 * inputs.gap))
            nF == nN + extra
        IN  /\ d.hasCounts /\ d.numFingers = nF /\ d.numNotches = nN
            /\ d.fingerSize = <<f, 1>>
            /\ IF nN = 0
               THEN Infeasible /\ ~d.hasSizes
               ELSE /\ d.hasSizes
                    /\ d.notchSize = Rat(height - (nF + nN - 1) * inputs.gap - nF * f, nN)

InfeasibilityScenario ==
    Resolved /\ height \in ScenarioSizes /\ inputs.minFingerSize \in ScenarioMinFingerSizes

\* C10 (as claimed): with size = 50 and minFingerLength = 60 the result is
\* Infeasible for every policy.
C10_InfeasibleForEveryPolicy ==
    InfeasibilityScenario => Infeasible

\* C10 (amended): with size = 50 and minFingerLength = 60 the result is
\* Infeasible for every policy with a dynamic count whose size mode is equal
\* size or fixed notch size (the branches that read minFingerLength).
C10_InfeasibleWhereMinFingerApplies ==
    (/\ InfeasibilityScenario
     /\ ~inputs.isNumberOfFingersFixed
     /\ inputs.dynamicSizeType # FIXED_FINGER_SIZE) => Infeasible

\* The scenario resolved in the dynamic fixed-notch branch with a positive
\* gap, the call having returned False.
C10_Witness ==
    /\ InfeasibilityScenario
    /\ ~inputs.isNumberOfFingersFixed
    /\ inputs.dynamicSizeType = FIXED_NOTCH_SIZE
    /\ inputs.gap > 0
    /\ pc = "done" /\ result = "False"

\* The policy with FingersOutside and NotchesOutside exchanged and with the
\* finger and notch sizing parameters exchanged.
MirrorPolicy(p) ==
    [p EXCEPT
       !.placementType = CASE p.placementType = FINGERS_OUTSIDE -> NOTCHES_OUTSIDE
                           [] p.placementType = NOTCHES_OUTSIDE -> FINGERS_OUTSIDE
                           [] OTHER -> p.placementType,
       !.dynamicSizeType = CASE p.dynamicSizeType = FIXED_FINGER_SIZE -> FIXED_NOTCH_SIZE
                             [] p.dynamicSizeType = FIXED_NOTCH_SIZE -> FIXED_FINGER_SIZE
                             [] OTHER -> p.dynamicSizeType,
       !.fixedFingerSize = p.fixedNotchSize,
       !.fixedNotchSize = p.fixedFingerSize,
       !.minFingerSize = p.minNotchSize,
       !.minNotchSize = p.minFingerSize]

\* Two results of the resolution mirror each other: both Infeasible, or both
\* concrete with the two slice lists, the counts and the lengths exchanged.
IsMirror(a, b) ==
    \/ a.kind = "None" /\ b.kind = "None"
    \/ /\ a.kind = "Dimensions" /\ b.kind = "Dimensions"
       /\ a.fingerToolDimensions = b.notchToolDimensions
       /\ a.notchToolDimensions = b.fingerToolDimensions
       /\ a.locals.numFingers = b.locals.numNotches
       /\ a.locals.numNotches = b.locals.numFingers
       /\ a.locals.fingerSize = b.locals.notchSize
       /\ a.locals.notchSize = b.locals.fingerSize

\* C11 (as claimed): for any size and policy P, the result for the mirrored
\* policy P' is the mirror of the result for P.
C11_MirrorForEveryPolicy ==
    Resolved => IsMirror(dimensions, defineToolBodyDimensions(SizeR, MirrorPolicy(inputs)))

\* C11 (amended): for a dynamic count, a placement with fingers or notches
\* outside and, in equal-size mode, minFingerLength = minNotchLength, the
\* result for the mirrored policy is the mirror of the result for the policy
\* (or both resolutions end in the same division by zero).
C11_MirrorWhereSymmetric ==
    (/\ Resolved
     /\ ~inputs.isNumberOfFingersFixed
     /\ inputs.placementType \in {FINGERS_OUTSIDE, NOTCHES_OUTSIDE}
     /\ (inputs.dynamicSizeType = EQUAL_NOTCH_AND_FINGER_SIZE
            => inputs.minFingerSize = inputs.minNotchSize)) =>
        LET m == defineToolBodyDimensions(SizeR, MirrorPolicy(inputs))
        IN  \/ IsMirror(dimensions, m)
            \/ dimensions.kind = "ZeroDivisionError" /\ m.kind = "ZeroDivisionError"

\* A concrete dynamic fixed-notch layout with fingers outside whose two
\* slice lists differ, the minimal sizes of fingers and notches differing too.
C11_Witness ==
    /\ Concrete
    /\ ~inputs.isNumberOfFingersFixed
    /\ inputs.placementType = FINGERS_OUTSIDE
    /\ inputs.dynamicSizeType = FIXED_NOTCH_SIZE
    /\ inputs.minFingerSize # inputs.minNotchSize
    /\ dimensions.locals.fingerSize # dimensions.locals.notchSize
    /\ inputs.gap > 0

\* The gaps a resolution is compared with.
ComparedGaps == 0 .. (MaxGap + 1)

\* The result of the solver for the same size and options but another gap.
WithGap(g) == defineToolBodyDimensions(SizeR, [inputs EXCEPT !.gap = g])

\* C12: with a dynamic count, in each of the three size modes and for every
\* placement, a gap that is not smaller never resolves to a greater
\* numFingers + numNotches, all other parameters and the size being equal.
C12_GapMonotonicity ==
    (/\ Resolved
     /\ pc # "notchTool"
     /\ ~inputs.isNumberOfFingersFixed
     /\ dimensions.locals.hasCounts) =>
        \A g2 \in {g \in ComparedGaps : inputs.gap < g} :
            LET b == ResolveDims(SizeR, [inputs EXCEPT !.gap = g2])
            IN  b.hasCounts => b.numFingers + b.numNotches <= CountSum

\* A dynamic layout that is concrete for its gap and for a greater gap, the
\* greater gap leaving strictly fewer fingers and notches.
C12_Witness ==
    /\ Concrete
    /\ ~inputs.isNumberOfFingersFixed
    /\ \E g2 \in ComparedGaps :
           /\ inputs.gap < g2
           /\ WithGap(g2).kind = "Dimensions"
           /\ WithGap(g2).locals.numFingers + WithGap(g2).locals.numNotches < CountSum

\* The scenario with a fixed count: size 100, gap 0, equal sizes, 5 fingers,
\* fingers outside.
FixedCountScenario ==
    /\ Resolved
    /\ height \in ScenarioCountSizes
    /\ inputs.gap = 0
    /\ inputs.dynamicSizeType = EQUAL_NOTCH_AND_FINGER_SIZE
    /\ inputs.isNumberOfFingersFixed
    /\ inputs.fixedNumFingers \in ScenarioCounts
    /\ inputs.placementType = FINGERS_OUTSIDE

\* numNotches = 4 and both lengths are 100/9.
ScenarioCountsAndLengths ==
    /\ Concrete
    /\ dimensions.locals.numNotches = 4
    /\ dimensions.locals.fingerSize = <<100, 9>>
    /\ dimensions.locals.notchSize = <<100, 9>>

\* Every slice of the list has width 100/9.
WidthsOfScenario(slices) ==
    \A i \in 1..Len(slices) : slices[i][2] = <<100, 9>>

\* C13 (as claimed): in the scenario numNotches = 4, both lengths are 100/9
\* and the finger tool has 5 intervals of width 100/9.
C13_FiveFingerToolIntervals ==
    FixedCountScenario =>
        /\ ScenarioCountsAndLengths
        /\ Len(dimensions.fingerToolDimensions) = 5
        /\ WidthsOfScenario(dimensions.fingerToolDimensions)

\* C13 (amended): in the scenario numNotches = 4, both lengths are 100/9, the
\* finger tool has 4 intervals of width 100/9 at the positions of the notches
\* (offsets 100/9, 300/9, 500/9, 700/9) and the notch tool has 5 intervals of
\* width 100/9 at the positions of the fingers (offsets 0, 200/9, ..., 800/9).
C13_FourFingerToolIntervals ==
    FixedCountScenario =>
        LET ft == dimensions.fingerToolDimensions
            nt == dimensions.notchToolDimensions
        IN  /\ ScenarioCountsAndLengths
            /\ Len(ft) = 4
            /\ WidthsOfScenario(ft)
            /\ \A i \in 1..4 : ft[i][1] = Rat((2 * i - 1) * 100, 9)
            /\ Len(nt) = 5
            /\ WidthsOfScenario(nt)
            /\ \A i \in 1..5 : nt[i][1] = Rat((2 * i - 2) * 100, 9)

\* The scenario has been resolved to a concrete layout.
C13_Witness ==
    FixedCountScenario /\ Concrete /\ pc = "fingerTool"

\* The slices of the list start in strictly increasing order, each has a
\* positive length and each ends exactly `separation` before the next starts.
SeparatedBy(slices, separation) ==
    /\ \A i \in 1..Len(slices) : RLt(RInt(0), slices[i][2])
    /\ \A i \in 1..(Len(slices) - 1) :
        /\ RLt(slices[i][1], slices[i + 1][1])
        /\ RLt(RAdd(slices[i][1], slices[i][2]), slices[i + 1][1])
        /\ RSub(slices[i + 1][1], RAdd(slices[i][1], slices[i][2])) = separation

\* C14: in each slice list of a concrete layout the offsets are strictly
\* increasing, every slice has positive length and ends before the next one
\* starts; consecutive finger-tool slices are separated by exactly
\* fingerLength and consecutive notch-tool slices by exactly notchLength.
C14_SlicesAreSeparated ==
    Concrete =>
        /\ SeparatedBy(dimensions.fingerToolDimensions, dimensions.locals.fingerSize)
        /\ SeparatedBy(dimensions.notchToolDimensions, dimensions.locals.notchSize)

\* A concrete layout with a positive gap, fingers and notches of different
\* lengths and at least three slices in one list and two in the other.
C14_Witness ==
    /\ Concrete
    /\ inputs.gap > 0
    /\ dimensions.locals.fingerSize # dimensions.locals.notchSize
    /\ Len(dimensions.fingerToolDimensions) >= 3
    /\ Len(dimensions.notchToolDimensions) >= 2

\* The fingers and the notches of the resolved layout as (start, length):
\* finger i at fingerStart + i*spacing, notch j at notchStart + j*spacing.
Occupied(first, length, count) ==
    LET d == dimensions.locals
        spacing == RAdd(RAdd(d.fingerSize, d.notchSize), RMul(RInt(2), GapR))
    IN  [k \in 1..count |-> <<RAdd(first, RMul(RInt(k - 1), spacing)), length>>]
Fingers ==
    LET d == dimensions.locals
    IN  Occupied(IF StartsWithFinger THEN RInt(0) ELSE RAdd(d.notchSize, GapR),
                 d.fingerSize, d.numFingers)
Notches ==
    LET d == dimensions.locals
    IN  Occupied(IF StartsWithFinger THEN RAdd(d.fingerSize, GapR) ELSE RInt(0),
                 d.notchSize, d.numNotches)

\* The intervals of the list as (start, end).
Spans(intervals) ==
    [i \in 1..Len(intervals) |->
        <<intervals[i][1], RAdd(intervals[i][1], intervals[i][2])>>]

\* The point lies inside one of the spans.
Covers(spans, p) ==
    \E i \in 1..Len(spans) : RLt(spans[i][1], p) /\ RLt(p, spans[i][2])

\* The ends of all fingers, notches and slices within [0, size], with 0 and
\* size; between two neighbours no interval starts or ends.
Ends(spans) == UNION {{spans[i][1], spans[i][2]} : i \in 1..Len(spans)}
Breakpoints ==
    {b \in Ends(Spans(Fingers)) \cup Ends(Spans(Notches))
           \cup Ends(Spans(dimensions.fingerToolDimensions))
           \cup Ends(Spans(dimensions.notchToolDimensions)) :
        RLt(RInt(0), b) /\ RLt(b, SizeR)} \cup {RInt(0), SizeR}
Following(a, breakpoints) ==
    CHOOSE b \in breakpoints :
        RLt(a, b) /\ \A c \in breakpoints : RLt(a, c) => RLe(b, c)
\* One point strictly between each two neighbouring breakpoints.
PointsBetween(breakpoints) ==
    {RDiv(RAdd(a, Following(a, breakpoints)), RInt(2)) : a \in breakpoints \ {SizeR}}
SamplePoints == PointsBetween(Breakpoints)

\* At every sample point: the finger tool covers it iff no finger does, the
\* notch tool covers it iff no notch does, and one of the tools covers it.
Complementary(points, fingers, notches, fingerTool, notchTool) ==
    \A p \in points :
        /\ Covers(fingerTool, p) <=> ~Covers(fingers, p)
        /\ Covers(notchTool, p) <=> ~Covers(notches, p)
        /\ Covers(fingerTool, p) \/ Covers(notchTool, p)

\* C15: within [0, size] the finger-tool slices of a concrete layout cover
\* exactly the points that lie in no finger and the notch-tool slices exactly
\* the points that lie in no notch, so every point lies in one of the tools
\* (checked at one point of every stretch between two interval ends).
C15_ToolsAreComplements ==
    (Concrete /\ pc = "fingerTool") =>
        Complementary(SamplePoints, Spans(Fingers), Spans(Notches),
                      Spans(dimensions.fingerToolDimensions),
                      Spans(dimensions.notchToolDimensions))

\* A concrete layout starting with a notch, with a positive gap and two
\* different lengths, that has points in a finger, in a notch and in a gap.
C15_Witness ==
    /\ Concrete
    /\ ~StartsWithFinger
    /\ inputs.gap > 0
    /\ dimensions.locals.fingerSize # dimensions.locals.notchSize
    /\ \E p \in SamplePoints : Covers(Spans(Fingers), p)
    /\ \E p \in SamplePoints : Covers(Spans(Notches), p)
    /\ \E p \in SamplePoints :
           ~Covers(Spans(Fingers), p) /\ ~Covers(Spans(Notches), p)

(***************************************************************************)
(* Properties of the steps of createToolBodies                             *)
(***************************************************************************)
\* The order of the steps: the solver is called after the overlap has been
\* moved into the local frame and measured; an Infeasible result returns
\* False without a tool body; a concrete result builds the finger tool and
\* then the notch tool, each moved back to global coordinates, and returns
\* the two in this order.
StepOrder ==
    /\ Resolved => SubSeq(calls, 1, Len(CallsOfResolution)) = CallsOfResolution
    /\ Infeasible =>
          pc = "done" /\ result = "False" /\ toolBodies = <<>>
                      /\ calls = CallsOfResolution
    /\ (Concrete /\ pc = "done") =>
        /\ result = "ToolBodies"
        /\ toolBodies = <<dimensions.fingerToolDimensions,
                          dimensions.notchToolDimensions>>
        /\ calls = CallsOfResolution \o CallsOfOneTool \o CallsOfOneTool
    /\ (Concrete /\ pc = "notchTool") =>
        /\ toolBodies = <<dimensions.fingerToolDimensions>>
        /\ calls = CallsOfResolution \o CallsOfOneTool

\* C16: createToolBodies ends in exactly one of three outcomes (True, False,
\* the pair of tool bodies) and keeps the order of its steps.
C16_ThreeOutcomesInOrder ==
    /\ pc = "done" => result \in {"True", "False", "ToolBodies"}
    /\ StepOrder

\* C17 (as claimed): when the overlap is volumeless the call ends with True
\* and has built no coordinate frame, measured no bounding box and not
\* called the solver.
C17_NoFrameWhenVolumeless ==
    (pc = "done" /\ result = "True") =>
        /\ \A i \in 1..Len(calls) : calls[i] \notin {"CoordinateSystem", "boundingBox"}
        /\ dimensions = NotCalled

\* C17 (amended): when the overlap is volumeless (the z extent of its local
\* bounding box is <= 0) the call ends with True without calling the solver
\* or building a tool body, after the coordinate frame has been built from
\* the overlap and the bounding box of the overlap been measured.
C17_NoSolverWhenVolumeless ==
    (pc \in {"resolve", "fingerTool", "notchTool", "done"} /\ height <= 0) =>
        /\ pc = "done"
        /\ result = "True"
        /\ calls = CallsBeforeTest
        /\ dimensions = NotCalled
        /\ toolBodies = <<>>

\* The call has returned True for an overlap of negative extent, the frame
\* built and the bounding box measured.
C17_Witness ==
    /\ pc = "done" /\ result = "True" /\ height < 0
    /\ calls = CallsBeforeTest

(***************************************************************************)
(* Properties of createToolBody                                            *)
(***************************************************************************)
Returned == tool.line = "returned"

\* The lateral extents of the overlap: the x and y sizes of its bounding box.
LateralLength == RInt(tool.bb.maxx - tool.bb.minx)
LateralWidth == RInt(tool.bb.maxy - tool.bb.miny)

\* C18: the tool body is scaled by one factor in x and y and by 1 in z, the
\* factor being max((length + 2*gapToPart)/length, (width + 2*gapToPart)/width)
\* for the lateral extents length and width of the overlap.
C18_ScaleByLateralExtent ==
    Returned =>
        LET twoGaps == RInt(2 * tool.gapToPart)
            factor == RMax(RDiv(RAdd(LateralLength, twoGaps), LateralLength),
                           RDiv(RAdd(LateralWidth, twoGaps), LateralWidth))
        IN  tool.scale = <<factor, factor, RInt(1)>>

\* The operations of the kernel for n slices of which k are stacked: a box
\* per slice, each but the first united with the target body.
StackingOps(k) ==
    [j \in 1..(IF k = 0 THEN 0 ELSE 2 * k - 1) |->
        IF j = 1 \/ j % 2 = 0 THEN "createBox" ELSE "union"]

\* C19: createToolBody requests one box per slice (offset, thickness),
\* centred at the x/y centre of the overlap's bounding box and at
\* z = minZ + offset + thickness/2, of size (length + 1) x (width + 1) x
\* thickness; all boxes are united before the intersection with the overlap,
\* and the intersection comes before the scaling.
C19_BoxPerSliceThenClipThenScale ==
    tool.line \in {"loop", "scale", "returned"} =>
        LET n == Len(tool.slices)
            clipped == Append(StackingOps(n), "intersection")
        IN  /\ Len(tool.boxes) = tool.i
            /\ \A k \in 1..tool.i :
                 tool.boxes[k] =
                   [centerPoint |->
                        <<Rat(tool.bb.minx + tool.bb.maxx, 2),
                          Rat(tool.bb.miny + tool.bb.maxy, 2),
                          RAdd(RAdd(RInt(tool.bb.minz), tool.slices[k][1]),
                               RDiv(tool.slices[k][2], RInt(2)))>>,
                    length |-> RAdd(LateralLength, RInt(1)),
                    width |-> RAdd(LateralWidth, RInt(1)),
                    height |-> tool.slices[k][2]]
            /\ tool.line = "loop" => tool.ops = StackingOps(tool.i)
            /\ tool.line = "scale" => tool.i = n /\ tool.ops = clipped
            /\ Returned => tool.i = n /\ tool.ops = Append(clipped, "transform")

\* A tool body of at least three slices has been returned for an overlap
\* whose bounding box is not centred and does not start at z = 0, the gap
\* between the fingers being positive.
C19_Witness ==
    /\ Returned
    /\ Len(tool.slices) >= 3
    /\ Len(tool.boxes) = Len(tool.slices)
    /\ inputs.gap > 0
    /\ tool.bb.minz # 0
    /\ tool.bb.minx + tool.bb.maxx # 0

(***************************************************************************)
(* Properties of CoordinateSystem                                          *)
(***************************************************************************)
\* C20: for every direction of positive length and every overlap, the
\* bounding box of the overlap transformed by the inverse of the final
\* transform has minimum z = 0 and is centred at x = 0 and y = 0; the final
\* transform has the axes of the preliminary one (unit vectors orthogonal to
\* each other, z along the direction) and differs only in the origin.
C20_OverlapSitsOnLocalOrigin ==
    /\ frame.line = "local" =>
          LET bb == boundingBox(frame.overlap)
          IN  /\ bb.minPoint[3] = RInt(0)
              /\ RAdd(bb.minPoint[1], bb.maxPoint[1]) = RInt(0)
              /\ RAdd(bb.minPoint[2], bb.maxPoint[2]) = RInt(0)
              /\ RLt(RInt(0), bb.maxPoint[3])
    /\ frame.line \in {"returned", "local"} =>
          LET x == frame.transform.cols[1]
              y == frame.transform.cols[2]
              z == frame.transform.cols[3]
              along == VSub(frame.direction.end, frame.direction.start)
          IN  /\ frame.transform.cols = frame.preliminaryTransform.cols
              /\ frame.preliminaryTransform.origin = frame.direction.start
              /\ Dot(x, x) = RInt(1) /\ Dot(y, y) = RInt(1) /\ Dot(z, z) = RInt(1)
              /\ Dot(x, y) = RInt(0) /\ Dot(y, z) = RInt(0) /\ Dot(x, z) = RInt(0)
              /\ isParallelTo(z, along) /\ RLt(RInt(0), Dot(z, along))

\* An overlap has been moved into a frame along a direction oblique to all
\* three global axes, the origin of the frame being neither the start of the
\* direction nor the untransformed centre.
C20_Witness ==
    /\ frame.line = "local"
    /\ VSub(frame.direction.end, frame.direction.start) = IntVector(<<15, 12, 16>>)
    /\ frame.direction.start # ZeroVector
    /\ frame.transform.origin # frame.preliminaryTransform.origin
    /\ frame.transform.origin # <<frame.cx, frame.cy, frame.minz>>

(***************************************************************************)
(* Properties of the counts and lengths of a concrete layout               *)
(***************************************************************************)
\* The relation between the two counts that a placement stands for.
CountsMatch(placementType, numFingers, numNotches) ==
    IF placementType = FINGERS_OUTSIDE THEN numFingers = numNotches + 1
    ELSE IF placementType = NOTCHES_OUTSIDE THEN numNotches = numFingers + 1
    ELSE numFingers = numNotches

\* C24: in every concrete layout, from any of the six branches, the counts
\* match the placement: numFingers = numNotches + 1 for FingersOutside,
\* numNotches = numFingers + 1 for NotchesOutside, and numFingers =
\* numNotches for the two same-count placements; the parity adjustment of
\* dynamic EqualSize gives this relation for odd and for even maxCount.
C24_CountsMatchPlacement ==
    Concrete =>
        CountsMatch(inputs.placementType,
                    dimensions.locals.numFingers, dimensions.locals.numNotches)

\* Concrete layouts of dynamic EqualSize whose maximal count was odd and was
\* lowered by the adjustment, and whose maximal count was even and was
\* lowered: gap 0 and minimum 1 give maxCount = size.
C24_Witness ==
    /\ Concrete
    /\ ~inputs.isNumberOfFingersFixed
    /\ inputs.dynamicSizeType = EQUAL_NOTCH_AND_FINGER_SIZE
    /\ inputs.gap = 0 /\ inputs.minFingerSize = 1
    /\ \/ height = 5 /\ inputs.placementType = SAME_NUMBER_START_NOTCH /\ CountSum = 4
       \/ height = 4 /\ inputs.placementType = NOTCHES_OUTSIDE /\ CountSum = 3

\* C25: every concrete layout has numFingers >= 1 and numNotches >= 1, so
\* both slice lists that lines 147-150 hand to createToolBody are non-empty
\* and createToolBody does not reach its intersection step with targetBody
\* still None; for every size > 0 and every policy with a fixed count >= 1.
C25_BothListsNonEmpty ==
    Concrete =>
        /\ dimensions.locals.numFingers >= 1
        /\ dimensions.locals.numNotches >= 1
        /\ Len(dimensions.fingerToolDimensions) >= 1
        /\ Len(dimensions.notchToolDimensions) >= 1
        /\ ~targetBodyIsNone(dimensions.fingerToolDimensions)
        /\ ~targetBodyIsNone(dimensions.notchToolDimensions)
        /\ \A k \in 1..Len(toolBodies) : ~targetBodyIsNone(toolBodies[k])

\* The smallest concrete layouts: one notch between two fingers, under a
\* fixed count and under a dynamic count, each list of the length the
\* other side's count gives.
C25_Witness ==
    /\ Concrete
    /\ inputs.placementType = FINGERS_OUTSIDE
    /\ dimensions.locals.numFingers = 2
    /\ dimensions.locals.numNotches = 1
    /\ Len(dimensions.fingerToolDimensions) = 1
    /\ Len(dimensions.notchToolDimensions) = 2
    /\ Len(toolBodies) = 2
    /\ Len(toolBodies[1]) = 1

SliceEnd(slice) == RAdd(slice[1], slice[2])

\* Where the last finger or notch of the layout ends: the units alternate
\* from z = 0, each followed by a gap except the last one.
LastUnitEnd ==
    LET lastIsFinger ==
            inputs.placementType \in {FINGERS_OUTSIDE, SAME_NUMBER_START_NOTCH}
        lastTool == IF lastIsFinger THEN dimensions.notchToolDimensions
                    ELSE dimensions.fingerToolDimensions
    IN  RSub(SliceEnd(lastTool[Len(lastTool)]), GapR)

SlicesWithin(slices, low, high) ==
    \A k \in 1..Len(slices) :
        /\ RLe(low, slices[k][1])
        /\ RLe(SliceEnd(slices[k]), high)

Alive == {commands[k].self : k \in {j \in 1..Len(commands) : ~commands[j].destroyed}}

\* C21: after any sequence of command creations (create or edit dialogs,
\* several alive at once) and destroy events, running_commands contains
\* exactly the command objects that have been constructed and have not yet
\* received onDestroy; this includes the subclasses that override __init__,
\* onCreate or onDestroy.
C21_RunningCommandsAreTheAliveOnes ==
    running_commands = Alive

\* Two dialogs alive at once, one of them an edit dialog, after a third
\* command was destroyed.
C21_Witness ==
    /\ Len(commands) = 3
    /\ commands[1].destroyed
    /\ commands[2].cls = EditFingerJointCommand /\ ~commands[2].destroyed
    /\ commands[3].cls = CreateFingerJointCommand /\ ~commands[3].destroyed
    /\ running_commands = {2, 3}

(***************************************************************************)
(* Properties of the dialog                                                *)
(***************************************************************************)
\* The rules of updateVisibility, read from the modes the dialog shows.
VisibleByRule(u, option) ==
    IF option = "fixedNumFingers" THEN u.isNumberOfFingersFixed
    ELSE IF option = "fixedNotchSize" THEN u.dynamicSizeType = FIXED_NOTCH_SIZE
    ELSE IF option = "fixedFingerSize" THEN u.dynamicSizeType = FIXED_FINGER_SIZE
    ELSE IF option = "minNotchSize"
    THEN ~u.isNumberOfFingersFixed /\ u.dynamicSizeType = FIXED_FINGER_SIZE
    ELSE ~u.isNumberOfFingersFixed /\ u.dynamicSizeType # FIXED_FINGER_SIZE

\* The options after a call, as the claim states them.
RelevantOptions(u, o) ==
    [dynamicSizeType |-> u.dynamicSizeType,
     placementType |-> u.placementType,
     isNumberOfFingersFixed |-> u.isNumberOfFingersFixed,
     isPreviewEnabled |-> u.isPreviewEnabled,
     fixedNumFingers |-> IF VisibleByRule(u, "fixedNumFingers")
                         THEN u.fixedNumFingers.value ELSE o.fixedNumFingers,
     fixedNotchSize |->
         IF VisibleByRule(u, "fixedNotchSize") /\ u.fixedNotchSize.isValidExpression
         THEN u.fixedNotchSize.value ELSE o.fixedNotchSize,
     fixedFingerSize |->
         IF VisibleByRule(u, "fixedFingerSize") /\ u.fixedFingerSize.isValidExpression
         THEN u.fixedFingerSize.value ELSE o.fixedFingerSize,
     minNotchSize |->
         IF VisibleByRule(u, "minNotchSize") /\ u.minNotchSize.isValidExpression
         THEN u.minNotchSize.value ELSE o.minNotchSize,
     minFingerSize |->
         IF VisibleByRule(u, "minFingerSize") /\ u.minFingerSize.isValidExpression
         THEN u.minFingerSize.value ELSE o.minFingerSize,
     gap |-> o.gap]

\* The steps that call setRelevantOptions (through doExecute).
CallsSetRelevantOptions ==
    \/ OnExecutePreview /\ ui.isPreviewEnabled
    \/ OnExecute

\* C23: setRelevantOptions always overwrites dynamicSizeType, placementType,
\* isNumberOfFingersFixed and isPreviewEnabled from the dialog, and
\* overwrites each of fixedNumFingers, fixedNotchSize, fixedFingerSize,
\* minNotchSize and minFingerSize only when its input is visible under the
\* rules of updateVisibility (and, for the lengths, holds a valid
\* expression); every option whose input is hidden, and the gap, keeps its
\* value, across any sequence of mode changes and calls.
C23_OnlyRelevantOptionsAreSet ==
    [][/\ CallsSetRelevantOptions => options' = RelevantOptions(ui, options)
       /\ ~CallsSetRelevantOptions => options' = options]_vars

\* After a mode change hid the input of the minimal finger size, a call has
\* written the new mode and left the option at its old value, which is not
\* the value the hidden input holds; the gap is the saved one.
C23_Witness ==
    /\ options.isNumberOfFingersFixed
    /\ ui.isNumberOfFingersFixed
    /\ ~ui.minFingerSize.isVisible
    /\ ui.minFingerSize.value # options.minFingerSize
    /\ options.minFingerSize = DefaultLength
    /\ events.next = "none"

====
